---- MODULE Spec2Model ----
(***************************************************************************)
(* A model of the lighteval excerpt: the scripted FakeModel backend of the *)
(* test harness, the evaluation of the PMI regression scenario, the        *)
(* LLM-as-judge client (JudgeLM), the construction of the evaluation       *)
(* Pipeline and its evaluate(), the multilingual task catalog, the Turkish *)
(* task groups, the HellaSwag prompt template and GenerationArgs.          *)
(*                                                                         *)
(* Python objects are records with a "kind" field, so that any two values  *)
(* can be compared; None is the record NoneVal.  An object whose           *)
(* attributes are set one after the other (self.x = ...) is a function     *)
(* from the names of the attributes set so far to their values: reading an *)
(* attribute outside its domain is Python's AttributeError.                *)
(***************************************************************************)
EXTENDS Integers, Sequences, FiniteSets, TLC

VARIABLES
    lm,          \* the FakeModel instance: attribute name -> value
    scripted,    \* what each queue held at construction, by request kind
    served,      \* every response returned so far, by request kind, in order
    last,        \* the latest backend call: kind, n, queue before, result
    epc,         \* evaluation of one task: where it stands
    metrics,     \* the metrics attached to the task, in attachment order
    requests,    \* the requests of the document, by request type
    responses,   \* the responses received so far, by request type
    doc_results, \* the document's responses not yet consumed by a metric
    metric_values, \* metric name -> value for the document
    judge,       \* the JudgeLM instance: its attributes
    jpc,         \* evaluate_answer: where the current call stands
    jcall,       \* evaluate_answer: the locals of the current call
    jlog,        \* what the judge has done: calls, constructions, events
    ppc,         \* Pipeline construction: where it stands
    env,         \* which parallelism libraries are installed
    pargs,       \* the arguments of PipelineParameters and Pipeline
    self,        \* the Pipeline instance: attribute name -> value
    perror,      \* the exception that ended the construction, or None
    plog,        \* the effects of the construction so far, in order
    proc,        \* the process running evaluate(): main-process flag and rank
    fs,          \* the state of each temporary weights directory
    step,        \* module-level code and pure functions: where the run stands
    input,       \* the inputs the run was given
    output       \* what the run has produced so far

fakeVars == <<lm, scripted, served, last>>

evalVars == <<epc, metrics, requests, responses, doc_results, metric_values>>

judgeVars == <<judge, jpc, jcall, jlog>>

pipeVars == <<ppc, env, pargs, self, perror, plog>>

runVars == <<proc, fs>>

pureVars == <<step, input, output>>

vars == <<fakeVars, evalVars, judgeVars, pipeVars, runVars, pureVars>>

NoneVal == [kind |-> "None"]

Min(a, b) == IF a < b THEN a ELSE b

(***************************************************************************)
(* Bounds of the model.                                                    *)
(***************************************************************************)
MaxResponses == 2   \* longest scripted queue
MaxRequests == 2    \* most requests in one backend call
MaxCalls == 3       \* backend calls in one run of the FakeModel

(***************************************************************************)
(* Python slicing, s[:n] and s[n:] for n >= 0: both clamp n to len(s) and  *)
(* neither raises.                                                         *)
(***************************************************************************)
PySliceToOffByOne(s, n) == SubSeq(s, 1, Min(n, Len(s)) - 1)

PySliceTo(s, n) == SubSeq(s, 1, Min(n, Len(s)))

PySliceFrom(s, n) == SubSeq(s, Min(n, Len(s)) + 1, Len(s))

(***************************************************************************)
(* tests/utils.py, FakeModel.  Each backend operation takes the model and  *)
(* the number of requests of the call (the only thing it reads of them)    *)
(* and gives the list it returns and the model after the call.             *)
(***************************************************************************)
Kinds == {"greedy_until", "loglikelihood", "loglikelihood_rolling",
          "loglikelihood_single_token"}

QueueAttr(kind) == kind \o "_responses"

FakeModel(greedy, ll, rolling, single) ==
    [_tokenizer |-> NoneVal,
     greedy_until_responses |-> greedy,
     loglikelihood_responses |-> ll,
     loglikelihood_rolling_responses |-> rolling,
     loglikelihood_single_token_responses |-> single]

greedy_until_swapped(m, n) ==
    [ret |-> PySliceFrom(m.greedy_until_responses, n),
     lm  |-> ("greedy_until_resp" :> PySliceTo(m.greedy_until_responses, n)) @@ m]

\* The remainder is assigned to the attribute greedy_until_resp, not to the
\* queue greedy_until_responses, which is left as it was.
greedy_until(m, n) ==
    [ret |-> PySliceTo(m.greedy_until_responses, n),
     lm  |-> ("greedy_until_resp" :> PySliceFrom(m.greedy_until_responses, n)) @@ m]

loglikelihood_stale(m, n) ==
    [ret |-> PySliceTo(m.loglikelihood_responses, n),
     lm  |-> ("loglikelihood_resp" :> PySliceFrom(m.loglikelihood_responses, n)) @@ m]

loglikelihood(m, n) ==
    [ret |-> PySliceTo(m.loglikelihood_responses, n),
     lm  |-> [m EXCEPT !.loglikelihood_responses = PySliceFrom(m.loglikelihood_responses, n)]]

loglikelihood_rolling(m, n) ==
    [ret |-> PySliceTo(m.loglikelihood_rolling_responses, n),
     lm  |-> [m EXCEPT !.loglikelihood_rolling_responses =
                          PySliceFrom(m.loglikelihood_rolling_responses, n)]]

loglikelihood_single_token(m, n) ==
    [ret |-> PySliceTo(m.loglikelihood_single_token_responses, n),
     lm  |-> [m EXCEPT !.loglikelihood_single_token_responses =
                          PySliceFrom(m.loglikelihood_single_token_responses, n)]]

\* The i-th scripted response of a kind: distinct objects.
Response(kind, i) == [kind |-> "response", of |-> kind, id |-> i]

Script(kind, k) == [i \in 1..k |-> Response(kind, i)]

NoCall == [kind |-> "none", n |-> 0, before |-> <<>>, ret |-> <<>>,
           outcome |-> "none", calls |-> 0]

RequestTypes == {"loglikelihood", "greedy_until"}

NoneByType == [t \in RequestTypes |-> <<>>]

\* No task is being evaluated.
EvalIdle ==
    /\ epc = "idle"
    /\ metrics = <<>>
    /\ requests = NoneByType
    /\ responses = NoneByType
    /\ doc_results = NoneByType
    /\ metric_values = <<>>

\* No judge has been built.
JudgeIdle ==
    /\ judge = NoneVal
    /\ jpc = "none"
    /\ jcall = NoneVal
    /\ jlog = NoneVal

\* No pipeline is being built.
PipeIdle ==
    /\ ppc = "none"
    /\ env = NoneVal
    /\ pargs = NoneVal
    /\ self = <<>>
    /\ perror = NoneVal
    /\ plog = <<>>

\* No FakeModel has been built.
FakeIdle ==
    /\ lm = NoneVal
    /\ scripted = NoneVal
    /\ served = NoneVal
    /\ last = NoCall

\* No evaluate() is running.
RunIdle ==
    /\ proc = NoneVal
    /\ fs = NoneVal

\* No module-level code or pure function is being run.
PureIdle ==
    /\ step = "none"
    /\ input = NoneVal
    /\ output = NoneVal

FakeInit ==
    \E g, l, r, s \in 0..MaxResponses :
        /\ lm = FakeModel(Script("greedy_until", g), Script("loglikelihood", l),
                          Script("loglikelihood_rolling", r),
                          Script("loglikelihood_single_token", s))
        /\ scripted = [k \in Kinds |-> lm[QueueAttr(k)]]
        /\ served = [k \in Kinds |-> <<>>]
        /\ last = NoCall
        /\ EvalIdle
        /\ JudgeIdle
        /\ RunIdle
        /\ PureIdle
        /\ PipeIdle
        /\ RunIdle
        /\ PureIdle

\* One backend call of a test: the call's effect on the model, and the record
\* of what it was given and what it returned.
Called(kind, n, out) ==
    /\ last.calls < MaxCalls
    /\ lm' = out.lm
    /\ served' = [served EXCEPT ![kind] = @ \o out.ret]
    /\ last' = [kind |-> kind, n |-> n, before |-> lm[QueueAttr(kind)],
                ret |-> out.ret, outcome |-> "returned", calls |-> last.calls + 1]
    /\ UNCHANGED <<scripted, evalVars, judgeVars, pipeVars, runVars, pureVars>>

CallGreedyUntil ==
    \E n \in 0..MaxRequests : Called("greedy_until", n, greedy_until(lm, n))

CallLoglikelihood ==
    \E n \in 0..MaxRequests : Called("loglikelihood", n, loglikelihood(lm, n))

CallLoglikelihoodRolling ==
    \E n \in 0..MaxRequests :
        Called("loglikelihood_rolling", n, loglikelihood_rolling(lm, n))

CallLoglikelihoodSingleToken ==
    \E n \in 0..MaxRequests :
        Called("loglikelihood_single_token", n, loglikelihood_single_token(lm, n))

FakeNext ==
    \/ CallGreedyUntil
    \/ CallLoglikelihood
    \/ CallLoglikelihoodRolling
    \/ CallLoglikelihoodSingleToken

SpecFakeModel == FakeInit /\ [][FakeNext]_vars

(***************************************************************************)
(* C1: FakeModel queue consumption.  For each of the four backend          *)
(* operations, what has been returned so far followed by what is still in  *)
(* the queue is exactly what was scripted: a call returns the first n      *)
(* responses still queued and removes them, so no scripted response is     *)
(* returned twice.  The code breaks this for greedy_until.                 *)
(***************************************************************************)
C1_QueueConsumption ==
    \A k \in Kinds : served[k] \o lm[QueueAttr(k)] = scripted[k]

Doc == [task_name |-> "pmi_test_task", unconditioned_query |-> "",
        gold_index |-> 0, choices |-> <<"Hello", "World">>]

LoglikelihoodReturn(v, matched) ==
    [kind |-> "LoglikelihoodReturn", result |-> <<v, matched>>,
     generated_tokens |-> <<0>>, input_tokens |-> <<0>>]

GenerateReturn(text) ==
    [kind |-> "GenerateReturn", result |-> text,
     generated_tokens |-> <<0>>, input_tokens |-> <<0>>]

\* The four responses of the tests, in their order: conditional for
\* continuation 0 and 1, then unconditioned for continuation 0 and 1.
TestLogliks == <<90, 20, 85, 10>>

TestMatched == <<TRUE, FALSE, TRUE, FALSE>>

LoglikValues == {10, 20, 85, 90}

Generations == {"Hello", "World"}

MetricLists == {<<"pmi_acc">>, <<"pmi_acc", "exact_match">>,
                <<"exact_match", "pmi_acc">>}

Attached(name) == \E i \in 1..Len(metrics) : metrics[i] = name

EvalInit ==
    \E vals \in [1..4 -> LoglikValues], ms \in MetricLists, gen \in Generations :
        /\ (\A i \in 1..Len(ms) : ms[i] # "exact_match") => gen = "Hello"
        /\ lm = FakeModel(IF \E i \in 1..Len(ms) : ms[i] = "exact_match"
                             THEN <<GenerateReturn(gen)>> ELSE <<>>,
                          [i \in 1..4 |-> LoglikelihoodReturn(vals[i], TestMatched[i])],
                          <<>>, <<>>)
        /\ scripted = [k \in Kinds |-> lm[QueueAttr(k)]]
        /\ served = [k \in Kinds |-> <<>>]
        /\ last = NoCall
        /\ epc = "requests"
        /\ metrics = ms
        /\ requests = NoneByType
        /\ responses = NoneByType
        /\ doc_results = NoneByType
        /\ metric_values = <<>>
        /\ JudgeIdle
        /\ PipeIdle
        /\ RunIdle
        /\ PureIdle

\* The requests of a PMI-normalized metric: per continuation its conditional
\* request, then per continuation its unconditioned request.
PmiRequests ==
    [i \in 1..(2 * Len(Doc.choices)) |->
        [kind |-> "LoglikelihoodRequest",
         choice |-> (i - 1) % Len(Doc.choices),
         conditioned |-> i <= Len(Doc.choices)]]

GreedyRequests == <<[kind |-> "GreedyUntilRequest"]>>

CreateRequests ==
    /\ epc = "requests"
    /\ requests' = [loglikelihood |-> IF Attached("pmi_acc") THEN PmiRequests ELSE <<>>,
                    greedy_until |-> IF Attached("exact_match") THEN GreedyRequests ELSE <<>>]
    /\ epc' = "running"
    /\ UNCHANGED <<judgeVars, pipeVars, fakeVars, metrics, responses, doc_results, metric_values, runVars, pureVars>>

BackendCall(type, m, n) ==
    IF type = "loglikelihood" THEN loglikelihood(m, n) ELSE greedy_until(m, n)

\* The next batch of the pending requests of one type goes to the backend; a
\* result that is not one response per request ends the evaluation.
Dispatch(type) ==
    /\ epc = "running"
    /\ Len(responses[type]) < Len(requests[type])
    /\ \E n \in 1..(Len(requests[type]) - Len(responses[type])) :
         LET out == BackendCall(type, lm, n) IN
           /\ lm' = out.lm
           /\ served' = [served EXCEPT ![type] = @ \o out.ret]
           /\ last' = [kind |-> type, n |-> n, before |-> lm[QueueAttr(type)],
                       ret |-> out.ret, outcome |-> "returned",
                       calls |-> last.calls + 1]
           /\ IF Len(out.ret) = n
                 THEN /\ responses' = [responses EXCEPT ![type] = @ \o out.ret]
                      /\ epc' = epc
                 ELSE /\ responses' = responses
                      /\ epc' = "failed"
    /\ UNCHANGED <<judgeVars, pipeVars, scripted, metrics, requests, doc_results, metric_values, runVars, pureVars>>

CollectResults ==
    /\ epc = "running"
    /\ \A t \in RequestTypes : Len(responses[t]) = Len(requests[t])
    /\ doc_results' = responses
    /\ epc' = "metrics"
    /\ UNCHANGED <<judgeVars, pipeVars, fakeVars, metrics, requests, responses, metric_values, runVars, pureVars>>

\* The least index (from 0) of a greatest element.
ArgMax(s) ==
    CHOOSE i \in 0..(Len(s) - 1) :
        /\ \A j \in 1..Len(s) : s[j] <= s[i + 1]
        /\ \A j \in 1..i : s[j] < s[i + 1]

\* The log-likelihood of the response to the request with this identity.
LoglikOf(reqs, res, choice, conditioned) ==
    LET i == CHOOSE j \in 1..Len(reqs) :
                 reqs[j].choice = choice /\ reqs[j].conditioned = conditioned
    IN res[i].result[1]

PmiAccuracy(reqs, res) ==
    LET scores == [c \in 1..Len(Doc.choices) |->
                      LoglikOf(reqs, res, c - 1, TRUE) - LoglikOf(reqs, res, c - 1, FALSE)]
        pred == ArgMax(scores)
    IN [scores |-> scores, pred |-> pred,
        value |-> IF pred = Doc.gold_index THEN 1 ELSE 0]

ExactMatch(res) ==
    [pred |-> res[1].result,
     value |-> IF res[1].result = Doc.choices[Doc.gold_index + 1] THEN 1 ELSE 0]

\* The next attached metric reads its responses at the head of the document's
\* results of its request type and removes them.
ApplyMetric ==
    /\ epc = "metrics"
    /\ Cardinality(DOMAIN metric_values) < Len(metrics)
    /\ LET name == metrics[Cardinality(DOMAIN metric_values) + 1] IN
         IF name = "pmi_acc"
            THEN /\ metric_values' = (name :> PmiAccuracy(requests.loglikelihood,
                                          PySliceTo(doc_results.loglikelihood,
                                                    2 * Len(Doc.choices))))
                                      @@ metric_values
                 /\ doc_results' = [doc_results EXCEPT !.loglikelihood =
                                       PySliceFrom(@, 2 * Len(Doc.choices))]
            ELSE /\ metric_values' = (name :> ExactMatch(PySliceTo(doc_results.greedy_until, 1)))
                                      @@ metric_values
                 /\ doc_results' = [doc_results EXCEPT !.greedy_until = PySliceFrom(@, 1)]
    /\ UNCHANGED <<judgeVars, pipeVars, fakeVars, epc, metrics, requests, responses, runVars, pureVars>>

ReturnMetricValues ==
    /\ epc = "metrics"
    /\ Cardinality(DOMAIN metric_values) = Len(metrics)
    /\ epc' = "done"
    /\ UNCHANGED <<judgeVars, pipeVars, fakeVars, metrics, requests, responses, doc_results, metric_values, runVars, pureVars>>

EvalNext ==
    \/ CreateRequests
    \/ Dispatch("loglikelihood")
    \/ Dispatch("greedy_until")
    \/ CollectResults
    \/ ApplyMetric
    \/ ReturnMetricValues

SpecEval == EvalInit /\ [][EvalNext]_vars

\* The scripted log-likelihood of the i-th response.
ScriptedLoglik(i) == scripted["loglikelihood"][i].result[1]

TestScript == \A i \in 1..4 : ScriptedLoglik(i) = TestLogliks[i]

(***************************************************************************)
(* C3: PMI pairing.  With the PMI-normalized accuracy as the only metric,  *)
(* the evaluation does not fail and each continuation's score is its       *)
(* conditional minus its own unconditioned log-likelihood, whatever the    *)
(* batches the requests were sent in; the metric value is 1 exactly when   *)
(* continuation 0 has a greatest score.  For the responses 0.9, 0.2, 0.85, *)
(* 0.1 the arg-max is continuation 1 and the value is 0.                   *)
(***************************************************************************)
C3_PmiPairing ==
    /\ epc # "failed"
    /\ (epc = "done" /\ metrics = <<"pmi_acc">>) =>
         LET r == metric_values["pmi_acc"] IN
           /\ r.scores = <<ScriptedLoglik(1) - ScriptedLoglik(3),
                           ScriptedLoglik(2) - ScriptedLoglik(4)>>
           /\ r.value = 1 <=> r.scores[1] >= r.scores[2]
           /\ TestScript => (r.scores = <<5, 10>> /\ r.pred = 1 /\ r.value = 0)

C3_Witness ==
    /\ epc = "done"
    /\ metrics = <<"pmi_acc">>
    /\ TestScript
    /\ last.calls >= 2
    /\ metric_values["pmi_acc"].value = 0

(***************************************************************************)
(* C4: metric non-interference.  With the PMI metric and the generative    *)
(* exact-match metric attached in either order, once the evaluation is     *)
(* done the PMI value is what it is without the other metric and the       *)
(* exact-match value is 1 exactly when the generation is the gold          *)
(* continuation: for the scripted responses of the test and the generation *)
(* "Hello", PMI is 0 and exact match is 1.  The evaluation does not fail,  *)
(* and a metric consuming its responses leaves the other metric's          *)
(* responses as they were.                                                 *)
(***************************************************************************)
C4_NonInterference ==
    /\ Attached("exact_match") => epc # "failed"
    /\ (epc = "done" /\ Attached("exact_match")) =>
         LET p == metric_values["pmi_acc"]
             e == metric_values["exact_match"]
             gen == scripted["greedy_until"][1].result
         IN
           /\ p.scores = <<ScriptedLoglik(1) - ScriptedLoglik(3),
                           ScriptedLoglik(2) - ScriptedLoglik(4)>>
           /\ p.value = 1 <=> p.scores[1] >= p.scores[2]
           /\ e.value = 1 <=> gen = "Hello"
           /\ (TestScript /\ gen = "Hello") => (p.value = 0 /\ e.value = 1)
    /\ (epc \in {"metrics", "done"} /\ Attached("exact_match")) =>
         /\ "pmi_acc" \notin DOMAIN metric_values =>
               doc_results.loglikelihood = responses.loglikelihood
         /\ "exact_match" \notin DOMAIN metric_values =>
               doc_results.greedy_until = responses.greedy_until
         /\ responses.loglikelihood = scripted["loglikelihood"]
         /\ responses.greedy_until = scripted["greedy_until"]

C4_Witness ==
    /\ epc = "done"
    /\ metrics = <<"exact_match", "pmi_acc">>
    /\ TestScript
    /\ metric_values["pmi_acc"].value = 0
    /\ metric_values["exact_match"].value = 1

(***************************************************************************)
(* metrics/llm_as_judge.py, JudgeLM, used by one call site at a time.      *)
(* The template and the response-processing function are the caller's:     *)
(* they are modelled as constructors, so that what they were applied to    *)
(* can be read off their result.                                           *)
(***************************************************************************)
MaxJudgeCalls == 2   \* evaluate_answer calls on one JudgeLM

API_MAX_RETRY == 3

API_RETRY_SLEEP == 1

Backends == {"openai", "tgi", "transformers", "vllm"}

\* The backend names a JudgeLM is built with: the four known ones and one
\* that is none of them.
BackendNames == Backends \cup {"other"}

Str(v) == [kind |-> "str", v |-> v]

JudgeLM(model, judge_backend, url, api_key) ==
    [model |-> model, client |-> NoneVal, pipe |-> NoneVal,
     url |-> url, api_key |-> api_key, backend |-> judge_backend]

Template(question, options, answer, gold) ==
    [kind |-> "prompt", question |-> question, options |-> options,
     answer |-> answer, gold |-> gold]

ProcessJudgeResponse(response) == [kind |-> "score", of |-> response]

\* Nothing has been done in the current call yet.
NewCall(args) ==
    [args |-> args, judge_function |-> "unset", prompt |-> NoneVal,
     response |-> NoneVal, score |-> NoneVal, result |-> NoneVal,
     error |-> "none", attempt |-> 0, template_calls |-> 0,
     handler_calls |-> 0, process_calls |-> 0, api_calls |-> 0,
     events |-> <<>>]

JudgeInit ==
    \E b \in BackendNames, u \in {NoneVal, Str("http://tgi")} :
        /\ judge = JudgeLM(Str("judge-model"), b, u, Str("key"))
        /\ jpc = "idle"
        /\ jcall = NewCall(NoneVal)
        /\ jlog = [calls |-> 0, constructions |-> 0, used |-> {}]
        /\ lm = NoneVal
        /\ scripted = NoneVal
        /\ served = NoneVal
        /\ last = NoCall
        /\ EvalIdle
        /\ PipeIdle
        /\ RunIdle
        /\ PureIdle

\* The client the openai and tgi backends share; serial tells one
\* constructed object from another.
OpenAI(j, serial) ==
    IF j.url = NoneVal
       THEN [kind |-> "OpenAI", base_url |-> NoneVal, api_key |-> j.api_key,
             serial |-> serial]
       ELSE [kind |-> "OpenAI", base_url |-> j.url, api_key |-> j.api_key,
             serial |-> serial]

TransformersPipeline(j, serial) ==
    [kind |-> "pipeline", task |-> "text-generation", model |-> j.model,
     max_new_tokens |-> 256, serial |-> serial]

VllmLLM(j, serial) ==
    [kind |-> "LLM", model |-> j.model, max_model_len |-> 4096, serial |-> serial]

Loaded(j, fn, constructed) ==
    [judge |-> j, judge_function |-> fn, constructed |-> constructed,
     raised |-> FALSE]

LoadFailed(j) ==
    [judge |-> j, judge_function |-> "unset", constructed |-> FALSE,
     raised |-> TRUE]

\* A variant that rejects a backend name it does not know.
LazyLoadClientStrict(j, ok, serial) ==
    IF j.backend \in {"openai", "tgi"}
       THEN IF j.client = NoneVal
               THEN IF ok THEN Loaded([j EXCEPT !.client = OpenAI(j, serial)],
                                      "__call_api", TRUE)
                          ELSE LoadFailed(j)
               ELSE Loaded(j, "__call_api", FALSE)
    ELSE IF j.backend = "transformers"
       THEN IF j.pipe = NoneVal
               THEN IF ok THEN Loaded([j EXCEPT !.pipe = TransformersPipeline(j, serial)],
                                      "__call_transformers", TRUE)
                          ELSE LoadFailed(j)
               ELSE Loaded(j, "__call_transformers", FALSE)
    ELSE IF j.backend = "vllm"
       THEN IF j.pipe = NoneVal
               THEN IF ok THEN Loaded([j EXCEPT !.pipe = VllmLLM(j, serial)],
                                      "__call_vllm", TRUE)
                          ELSE LoadFailed(j)
               ELSE Loaded(j, "__call_vllm", FALSE)
    ELSE LoadFailed(j)

\* A variant that builds the client or pipeline on every call.
LazyLoadClientEager(j, ok, serial) ==
    IF j.backend \in {"openai", "tgi"}
       THEN IF ok THEN Loaded([j EXCEPT !.client = OpenAI(j, serial)],
                              "__call_api", TRUE)
                  ELSE LoadFailed(j)
    ELSE IF j.backend = "transformers"
       THEN IF ok THEN Loaded([j EXCEPT !.pipe = TransformersPipeline(j, serial)],
                              "__call_transformers", TRUE)
                  ELSE LoadFailed(j)
    ELSE IF j.backend = "vllm"
       THEN IF ok THEN Loaded([j EXCEPT !.pipe = VllmLLM(j, serial)],
                              "__call_vllm", TRUE)
                  ELSE LoadFailed(j)
    ELSE Loaded(j, "identity", FALSE)

\* __lazy_load_client: the judge after it, the handler it returns, whether
\* it constructed a client or pipeline, and whether it raised.  ok says
\* whether the import and the construction succeed when they are attempted.
LazyLoadClient(j, ok, serial) ==
    IF j.backend \in {"openai", "tgi"}
       THEN IF j.client = NoneVal
               THEN IF ok THEN Loaded([j EXCEPT !.client = OpenAI(j, serial)],
                                      "__call_api", TRUE)
                          ELSE LoadFailed(j)
               ELSE Loaded(j, "__call_api", FALSE)
    ELSE IF j.backend = "transformers"
       THEN IF j.pipe = NoneVal
               THEN IF ok THEN Loaded([j EXCEPT !.pipe = TransformersPipeline(j, serial)],
                                      "__call_transformers", TRUE)
                          ELSE LoadFailed(j)
               ELSE Loaded(j, "__call_transformers", FALSE)
    ELSE IF j.backend = "vllm"
       THEN IF j.pipe = NoneVal
               THEN IF ok THEN Loaded([j EXCEPT !.pipe = VllmLLM(j, serial)],
                                      "__call_vllm", TRUE)
                          ELSE LoadFailed(j)
               ELSE Loaded(j, "__call_vllm", FALSE)
    ELSE Loaded(j, "identity", FALSE)

Questions == {"q1", "q2"}

Answers == {"a1"}

OptionLists == {NoneVal, Str("A|B")}

Golds == {NoneVal, Str("gold")}

\* What a backend answers.
Contents == {Str("good"), Str("bad")}

\* evaluate_answer, up to the return of __lazy_load_client.
EvaluateAnswer ==
    /\ jpc \in {"idle", "returned", "raised"}
    /\ jlog.calls < MaxJudgeCalls
    /\ \E q \in Questions, a \in Answers, o \in OptionLists, g \in Golds, ok \in BOOLEAN :
         LET r == LazyLoadClient(judge, ok, jlog.constructions + 1) IN
           /\ judge' = r.judge
           /\ jlog' = [jlog EXCEPT !.calls = @ + 1,
                                   !.constructions = IF r.constructed THEN @ + 1 ELSE @]
           /\ jcall' = [NewCall([question |-> q, answer |-> a, options |-> o,
                                 gold |-> g])
                          EXCEPT !.judge_function = r.judge_function,
                                 !.error = IF r.raised THEN "load" ELSE "none"]
           /\ jpc' = IF r.raised THEN "raised" ELSE "loaded"
    /\ UNCHANGED <<fakeVars, evalVars, pipeVars, runVars, pureVars>>

RenderPrompt ==
    /\ jpc = "loaded"
    /\ jcall' = [jcall EXCEPT
                   !.prompt = Template(jcall.args.question, jcall.args.options,
                                       jcall.args.answer, jcall.args.gold),
                   !.template_calls = @ + 1]
    /\ jpc' = "rendered"
    /\ UNCHANGED <<judge, jlog, fakeVars, evalVars, pipeVars, runVars, pureVars>>

\* lambda x: x
CallIdentity ==
    /\ jpc = "rendered"
    /\ jcall.judge_function = "identity"
    /\ jcall' = [jcall EXCEPT !.response = jcall.prompt, !.handler_calls = @ + 1]
    /\ jpc' = "responded"
    /\ UNCHANGED <<judge, jlog, fakeVars, evalVars, pipeVars, runVars, pureVars>>

\* __call_transformers and __call_vllm: one use of the pipeline, which answers
\* or raises; nothing is caught.
CallPipeline(fn) ==
    /\ jpc = "rendered"
    /\ jcall.judge_function = fn
    /\ jlog' = [jlog EXCEPT !.used = @ \cup {judge.pipe}]
    /\ \/ \E c \in Contents :
            /\ jcall' = [jcall EXCEPT !.response = c, !.handler_calls = @ + 1]
            /\ jpc' = "responded"
       \/ /\ jcall' = [jcall EXCEPT !.error = "backend", !.handler_calls = @ + 1]
          /\ jpc' = "raised"
    /\ UNCHANGED <<judge, fakeVars, evalVars, pipeVars, runVars, pureVars>>

\* __call_api is entered.
CallApi ==
    /\ jpc = "rendered"
    /\ jcall.judge_function = "__call_api"
    /\ jcall' = [jcall EXCEPT !.attempt = 0, !.handler_calls = @ + 1]
    /\ jpc' = "api"
    /\ UNCHANGED <<judge, jlog, fakeVars, evalVars, pipeVars, runVars, pureVars>>

Event(ev, secs) == [ev |-> ev, secs |-> secs]

ApiLoopContinuesOffByOne(attempt) == attempt <= API_MAX_RETRY

\* for _ in range(self.API_MAX_RETRY)
ApiLoopContinues(attempt) == attempt < API_MAX_RETRY

ApiAttemptSleepingAfterSuccess ==
    /\ jpc = "api"
    /\ ApiLoopContinues(jcall.attempt)
    /\ jlog' = [jlog EXCEPT !.used = @ \cup {judge.client}]
    /\ \/ \E c \in Contents :
            /\ jcall' = [jcall EXCEPT !.response = c, !.api_calls = @ + 1,
                                      !.events = @ \o <<Event("call", 0),
                                                        Event("sleep", API_RETRY_SLEEP)>>]
            /\ jpc' = "responded"
       \/ /\ jcall' = [jcall EXCEPT
                         !.api_calls = @ + 1, !.attempt = @ + 1,
                         !.events = @ \o <<Event("call", 0), Event("warn", 0),
                                           Event("sleep", API_RETRY_SLEEP)>>]
          /\ jpc' = "api"
    /\ UNCHANGED <<judge, fakeVars, evalVars, pipeVars, runVars, pureVars>>

\* One pass of the loop of __call_api: the chat completion answers, or it
\* raises and the exception is logged and slept on.
ApiAttempt ==
    /\ jpc = "api"
    /\ ApiLoopContinues(jcall.attempt)
    /\ jlog' = [jlog EXCEPT !.used = @ \cup {judge.client}]
    /\ \/ \E c \in Contents :
            /\ jcall' = [jcall EXCEPT !.response = c, !.api_calls = @ + 1,
                                      !.events = Append(@, Event("call", 0))]
            /\ jpc' = "responded"
       \/ /\ jcall' = [jcall EXCEPT
                         !.api_calls = @ + 1, !.attempt = @ + 1,
                         !.events = @ \o <<Event("call", 0), Event("warn", 0),
                                           Event("sleep", API_RETRY_SLEEP)>>]
          /\ jpc' = "api"
    /\ UNCHANGED <<judge, fakeVars, evalVars, pipeVars, runVars, pureVars>>

\* raise Exception("Failed to get response from the API")
ApiExhausted ==
    /\ jpc = "api"
    /\ ~ApiLoopContinues(jcall.attempt)
    /\ jcall' = [jcall EXCEPT !.error = "Failed to get response from the API"]
    /\ jpc' = "raised"
    /\ UNCHANGED <<judge, jlog, fakeVars, evalVars, pipeVars, runVars, pureVars>>

EvaluateAnswerResultSwapped(score, prompt, response) == <<score, response, prompt>>

\* return score, prompt, response
EvaluateAnswerResult(score, prompt, response) == <<score, prompt, response>>

\* The end of evaluate_answer: the response is processed and the triple returned.
ProcessAndReturn ==
    /\ jpc = "responded"
    /\ LET score == ProcessJudgeResponse(jcall.response) IN
         jcall' = [jcall EXCEPT
                     !.score = score,
                     !.process_calls = @ + 1,
                     !.result = EvaluateAnswerResult(score, jcall.prompt, jcall.response)]
    /\ jpc' = "returned"
    /\ UNCHANGED <<judge, jlog, fakeVars, evalVars, pipeVars, runVars, pureVars>>

JudgeNext ==
    \/ EvaluateAnswer
    \/ RenderPrompt
    \/ CallIdentity
    \/ CallPipeline("__call_transformers")
    \/ CallPipeline("__call_vllm")
    \/ CallApi
    \/ ApiAttempt
    \/ ApiExhausted
    \/ ProcessAndReturn

SpecJudge == JudgeInit /\ [][JudgeNext]_vars

(***************************************************************************)
(* C5: evaluate_answer result.  For every backend, a call that returns has *)
(* rendered the prompt once with the template from (question, options,     *)
(* answer, gold), called the backend handler once, applied the processing  *)
(* function once to the raw response, and returns the triple (score,       *)
(* rendered prompt, raw response) in that order.                           *)
(***************************************************************************)
C5_EvaluateAnswerResult ==
    jpc = "returned" =>
        LET a == jcall.args
            prompt == Template(a.question, a.options, a.answer, a.gold)
        IN /\ jcall.template_calls = 1
           /\ jcall.handler_calls = 1
           /\ jcall.process_calls = 1
           /\ jcall.result[2] = prompt
           /\ jcall.result[3] = jcall.response
           /\ jcall.result[1] = ProcessJudgeResponse(jcall.response)
           /\ jcall.response # NoneVal

C5_Witness ==
    /\ jpc = "returned"
    /\ judge.backend = "vllm"
    /\ jcall.args.gold = Str("gold")
    /\ jcall.response = Str("good")

\* The positions of the chat-completion calls in the events of the call.
CallPositions == {i \in 1..Len(jcall.events) : jcall.events[i].ev = "call"}

(***************************************************************************)
(* C6: judge HTTP retry exhaustion.  At most 3 chat-completion calls are   *)
(* ever made in one evaluate_answer; when the openai/tgi path ends with    *)
(* the generic failure, exactly 3 calls were made and all raised, each     *)
(* failure was logged as a warning, and between any two calls there was a  *)
(* sleep of 1 second.                                                      *)
(***************************************************************************)
C6_RetryExhaustion ==
    /\ jcall.api_calls <= 3
    /\ (jpc = "raised" /\ jcall.error = "Failed to get response from the API") =>
         /\ judge.backend \in {"openai", "tgi"}
         /\ jcall.api_calls = 3
         /\ Cardinality(CallPositions) = 3
         /\ Cardinality({i \in 1..Len(jcall.events) : jcall.events[i].ev = "warn"}) = 3
         /\ \A i \in CallPositions : jcall.events[i + 1].ev = "warn"
         /\ \A i, k \in CallPositions :
               i < k => \E s \in (i + 1)..(k - 1) : jcall.events[s] = Event("sleep", 1)
         /\ jcall.response = NoneVal

C6_Witness ==
    /\ jpc = "raised"
    /\ jcall.error = "Failed to get response from the API"
    /\ judge.backend = "tgi"
    /\ jcall.api_calls = 3

(***************************************************************************)
(* C7: judge identity fallback.  A JudgeLM with a backend name other than  *)
(* openai, tgi, transformers and vllm never raises and never constructs a  *)
(* client or pipeline; evaluate_answer returns the rendered prompt itself  *)
(* as the raw response and the processing function applied to that prompt  *)
(* as the score.                                                           *)
(***************************************************************************)
C7_IdentityFallback ==
    (jpc # "none" /\ judge.backend \notin Backends) =>
        /\ jpc # "raised"
        /\ judge.client = NoneVal
        /\ judge.pipe = NoneVal
        /\ jlog.constructions = 0
        /\ jlog.used = {}
        /\ jpc = "returned" =>
              /\ jcall.result[3] = jcall.result[2]
              /\ jcall.result[2] = Template(jcall.args.question, jcall.args.options,
                                            jcall.args.answer, jcall.args.gold)
              /\ jcall.result[1] = ProcessJudgeResponse(jcall.result[2])

C7_Witness ==
    /\ jpc = "returned"
    /\ judge.backend = "other"
    /\ jlog.calls = 2
    /\ jcall.response = jcall.prompt

\* The client or pipeline the backend of the judge uses.
BackendObject ==
    IF judge.backend \in {"openai", "tgi"} THEN judge.client ELSE judge.pipe

(***************************************************************************)
(* C8: judge lazy singleton.  For a recognized backend used by one caller  *)
(* at a time, the client/pipeline is absent before the first               *)
(* evaluate_answer call, no call constructs one when one is present, so at *)
(* most one is ever constructed, and every handler call uses that one      *)
(* object; a call whose load did not raise leaves it constructed.          *)
(***************************************************************************)
C8_LazySingleton ==
    (jpc # "none" /\ judge.backend \in Backends) =>
        /\ jlog.calls = 0 => (judge.client = NoneVal /\ judge.pipe = NoneVal)
        /\ jlog.constructions <= 1
        /\ jlog.constructions = 0 <=> BackendObject = NoneVal
        /\ jlog.used \subseteq {BackendObject}
        /\ BackendObject # NoneVal => BackendObject.serial = 1
        /\ jpc \in {"loaded", "rendered", "api", "responded", "returned"} =>
              jlog.constructions = 1
        /\ (judge.backend \in {"openai", "tgi"}) => judge.pipe = NoneVal
        /\ (judge.backend \in {"transformers", "vllm"}) => judge.client = NoneVal

C8_Witness ==
    /\ jpc = "returned"
    /\ judge.backend = "openai"
    /\ jlog.calls = 2
    /\ jlog.constructions = 1
    /\ jlog.used = {judge.client}

(***************************************************************************)
(* pipeline.py: PipelineParameters.__post_init__ and the construction of a *)
(* Pipeline by one process.  The Pipeline instance is the function self    *)
(* from the attributes assigned so far to their values; plog lists the     *)
(* effects on the collaborators (logger, accelerator, distributed backend, *)
(* model loader, tracker) in the order they happen.                        *)
(***************************************************************************)
MaxParallelSize == 2   \* largest tensor/pipeline/data parallel size

Launchers == {"ACCELERATE", "NANOTRON", "TGI", "NONE"}

PyInt(v) == [kind |-> "int", v |-> v]

\* Python truth of the values that occur: None, 0 and "" are false.
Truthy(v) == v # NoneVal /\ v # PyInt(0) /\ v # Str("")

Exception(kind, msg) == [kind |-> kind, msg |-> msg]

ModelInstances == {[kind |-> "LightevalModel", model_info |-> Str("given")]}

ModelConfigs ==
    {[kind |-> "config", parallelism |-> [tp |-> tp, pp |-> pp, dp |-> dp]] :
        tp \in 1..MaxParallelSize, pp \in 1..MaxParallelSize, dp \in 1..MaxParallelSize}

PipeInit ==
    \E launcher \in Launchers, acc \in BOOLEAN, nano \in BOOLEAN, tgi \in BOOLEAN,
       model \in ModelInstances \cup {NoneVal},
       model_config \in ModelConfigs \cup {NoneVal},
       max_samples \in {NoneVal, PyInt(10)} :
        /\ env = [accelerate |-> acc, nanotron |-> nano, tgi |-> tgi]
        /\ pargs = [launcher_type |-> launcher, max_samples |-> max_samples,
                    nanotron_checkpoint_path |-> Str("ckpt/dir/config.yaml"),
                    model |-> model, model_config |-> model_config]
        /\ ppc = "params"
        /\ self = <<>>
        /\ perror = NoneVal
        /\ plog = <<>>
        /\ lm = NoneVal
        /\ scripted = NoneVal
        /\ served = NoneVal
        /\ last = NoCall
        /\ EvalIdle
        /\ JudgeIdle
        /\ RunIdle
        /\ PureIdle

\* PipelineParameters.__post_init__: the library of the chosen launcher.
LauncherLibraryMissing(launcher, e) ==
    \/ launcher = "ACCELERATE" /\ ~e.accelerate
    \/ launcher = "TGI" /\ ~e.tgi
    \/ launcher = "NANOTRON" /\ ~e.nanotron

PipelineParametersPostInit ==
    /\ ppc = "params"
    /\ IF LauncherLibraryMissing(pargs.launcher_type, env)
          THEN /\ ppc' = "failed"
               /\ perror' = Exception("ImportError", pargs.launcher_type)
          ELSE /\ ppc' = "init"
               /\ perror' = perror
    /\ UNCHANGED <<env, pargs, self, plog, fakeVars, evalVars, judgeVars, runVars, pureVars>>

MustProvide ==
    Exception("ValueError",
              "Must provide either a model or model config when creating a pipeline.")

ModelAndConfigSupplied(model, model_config) == Truthy(model) /\ Truthy(model_config)

\* model or model_config
ModelOrConfigSupplied(model, model_config) == Truthy(model) \/ Truthy(model_config)

\* Pipeline.__init__ up to the call of _init_parallelism_manager.
PipelineBegin ==
    /\ ppc = "init"
    /\ IF ~ModelOrConfigSupplied(pargs.model, pargs.model_config)
          THEN /\ ppc' = "failed"
               /\ perror' = MustProvide
               /\ UNCHANGED <<self, plog>>
          ELSE /\ self' = [pipeline_parameters |->
                              [launcher_type |-> pargs.launcher_type,
                               max_samples |-> pargs.max_samples,
                               nanotron_checkpoint_path |-> pargs.nanotron_checkpoint_path],
                           launcher_type |-> pargs.launcher_type]
               /\ plog' = IF Truthy(pargs.max_samples)
                             THEN <<"hlog: max_samples warning">> ELSE <<>>
               /\ ppc' = "parallelism"
               /\ perror' = perror
    /\ UNCHANGED <<env, pargs, fakeVars, evalVars, judgeVars, runVars, pureVars>>

Accelerator == [kind |-> "Accelerator", timeout_seconds |-> 3000]

ParallelContext(tp, pp, dp) ==
    [kind |-> "ParallelContext", tensor_parallel_size |-> tp,
     pipeline_parallel_size |-> pp, data_parallel_size |-> dp]

ParallelismResult(accelerator, parallel_context, error, effects) ==
    [accelerator |-> accelerator, parallel_context |-> parallel_context,
     error |-> error, effects |-> effects]

\* _init_parallelism_manager on the instance as it is when __init__ calls it:
\* the pair it returns, or the exception that leaves it, and its effects.
\* The NANOTRON branch reads self.model_config.
InitParallelismManager(obj, e) ==
    IF obj.launcher_type = "ACCELERATE"
       THEN IF ~e.accelerate
               THEN ParallelismResult(NoneVal, NoneVal,
                        Exception("ValueError", "accelerate is not installed"), <<>>)
               ELSE ParallelismResult(Accelerator, NoneVal, NoneVal,
                        <<"Accelerator", "test_all_gather(accelerator)">>)
    ELSE IF obj.launcher_type = "NANOTRON"
       THEN IF ~e.nanotron
               THEN ParallelismResult(NoneVal, NoneVal,
                        Exception("ValueError", "nanotron is not installed"), <<>>)
            ELSE IF "model_config" \notin DOMAIN obj
               THEN ParallelismResult(NoneVal, NoneVal,
                        Exception("AttributeError",
                                  "'Pipeline' object has no attribute 'model_config'"),
                        <<"dist.initialize_torch_distributed">>)
            ELSE IF obj.model_config = NoneVal
               THEN ParallelismResult(NoneVal, NoneVal,
                        Exception("AttributeError",
                                  "'NoneType' object has no attribute 'parallelism'"),
                        <<"dist.initialize_torch_distributed">>)
            ELSE ParallelismResult(NoneVal,
                        ParallelContext(obj.model_config.parallelism.tp,
                                        obj.model_config.parallelism.pp,
                                        obj.model_config.parallelism.dp),
                        NoneVal,
                        <<"dist.initialize_torch_distributed", "ParallelContext",
                          "test_all_gather(parallel_context)">>)
    ELSE ParallelismResult(NoneVal, NoneVal, NoneVal, <<>>)

\* self.accelerator, self.parallel_context = self._init_parallelism_manager()
PipelineInitParallelism ==
    /\ ppc = "parallelism"
    /\ LET r == InitParallelismManager(self, env) IN
         /\ plog' = plog \o <<"htrack_block: Test all gather">> \o r.effects
         /\ IF r.error # NoneVal
               THEN /\ ppc' = "failed"
                    /\ perror' = r.error
                    /\ self' = self
               ELSE /\ ppc' = "model"
                    /\ perror' = perror
                    /\ self' = [a \in DOMAIN self \cup {"accelerator", "parallel_context"} |->
                                   IF a = "accelerator" THEN r.accelerator
                                   ELSE IF a = "parallel_context" THEN r.parallel_context
                                   ELSE self[a]]
    /\ UNCHANGED <<env, pargs, fakeVars, evalVars, judgeVars, runVars, pureVars>>

\* os.path.dirname of the checkpoint path.
Dirname(path) == [kind |-> "dirname", of |-> path]

InitModelPreferringInstance(obj, model_config, model) ==
    IF model # NoneVal THEN [model |-> model, effects |-> <<>>]
    ELSE [model |-> [kind |-> "loaded", config |-> model_config,
                     model_info |-> Str("loaded")],
          effects |-> <<"load_model">>]

\* _init_model: the model and the effects of resolving it.
InitModel(obj, model_config, model) ==
    IF model_config # NoneVal
       THEN IF Truthy(obj.parallel_context)
               THEN [model |-> [kind |-> "NanotronLightevalModel",
                                checkpoint_path |->
                                    Dirname(obj.pipeline_parameters.nanotron_checkpoint_path),
                                nanotron_config |-> obj.model_config,
                                parallel_context |-> obj.accelerator,
                                model_info |-> Str("nanotron")],
                     effects |-> <<"NanotronLightevalModel">>]
               ELSE [model |-> [kind |-> "loaded", config |-> model_config,
                                model_info |-> Str("loaded")],
                     effects |-> IF obj.accelerator # NoneVal
                                    THEN <<"main_process_first: enter", "load_model",
                                           "main_process_first: exit">>
                                    ELSE <<"load_model">>]
       ELSE [model |-> model, effects |-> <<>>]

\* Lines 118 to 120 of __init__.
PipelineInitModel ==
    /\ ppc = "model"
    /\ LET withConfig == [a \in DOMAIN self \cup {"evaluation_tracker", "model_config"} |->
                             IF a = "evaluation_tracker" THEN [kind |-> "EvaluationTracker"]
                             ELSE IF a = "model_config" THEN pargs.model_config
                             ELSE self[a]]
           r == InitModel(withConfig, pargs.model_config, pargs.model)
       IN /\ self' = [a \in DOMAIN withConfig \cup {"model"} |->
                         IF a = "model" THEN r.model ELSE withConfig[a]]
          /\ plog' = plog \o <<"htrack_block: Model loading">> \o r.effects
    /\ ppc' = "model_info"
    /\ UNCHANGED <<env, pargs, perror, fakeVars, evalVars, judgeVars, runVars, pureVars>>

LogModelInfoFirst ==
    /\ ppc = "model_info"
    /\ plog' = <<"log_model_info">> \o plog
    /\ ppc' = "tasks"
    /\ UNCHANGED <<env, pargs, self, perror, fakeVars, evalVars, judgeVars, runVars, pureVars>>

\* self.evaluation_tracker.general_config_logger.log_model_info(self.model.model_info)
PipelineLogModelInfo ==
    /\ ppc = "model_info"
    /\ plog' = Append(plog, "log_model_info")
    /\ ppc' = "tasks"
    /\ UNCHANGED <<env, pargs, self, perror, fakeVars, evalVars, judgeVars, runVars, pureVars>>

\* _init_tasks_and_requests
PipelineInitTasksAndRequests ==
    /\ ppc = "tasks"
    /\ plog' = plog \o <<"htrack_block: Tasks loading">>
                    \o (IF self.launcher_type = "NANOTRON"
                           THEN <<"local_ranks_zero_first">> ELSE <<>>)
                    \o <<"load_datasets", "task_config_logger.log",
                         "create_requests_from_tasks">>
    /\ self' = [a \in DOMAIN self \cup {"task_names_list", "task_dict", "fewshot_dict",
                                         "requests", "docs"} |->
                   IF a \in DOMAIN self THEN self[a] ELSE [kind |-> a]]
    /\ ppc' = "seeds"
    /\ UNCHANGED <<env, pargs, perror, fakeVars, evalVars, judgeVars, runVars, pureVars>>

\* _init_random_seeds
PipelineInitRandomSeeds ==
    /\ ppc = "seeds"
    /\ plog' = plog \o <<"random.seed(1234)", "np.random.seed(1234)">>
                    \o (IF self.accelerator # NoneVal
                           THEN <<"accelerator.wait_for_everyone">> ELSE <<>>)
                    \o (IF self.parallel_context # NoneVal
                           THEN <<"dist.barrier">> ELSE <<>>)
    /\ ppc' = "constructed"
    /\ UNCHANGED <<env, pargs, self, perror, fakeVars, evalVars, judgeVars, runVars, pureVars>>

PipeNext ==
    \/ PipelineParametersPostInit
    \/ PipelineBegin
    \/ PipelineInitParallelism
    \/ PipelineInitModel
    \/ PipelineLogModelInfo
    \/ PipelineInitTasksAndRequests
    \/ PipelineInitRandomSeeds

SpecPipeline == PipeInit /\ [][PipeNext]_vars

\* The value of an attribute of the Pipeline, None while it is not set.
Attr(name) == IF name \in DOMAIN self THEN self[name] ELSE NoneVal

\* Pipeline.__init__ has made its check of model and model_config.
RequirementChecked ==
    ppc \notin {"none", "params", "init"} /\ perror.kind # "ImportError"

(***************************************************************************)
(* C9 as claimed: the construction is accepted only when exactly one of a  *)
(* model instance and a model configuration is supplied.                   *)
(***************************************************************************)
C9_ExactlyOne ==
    (RequirementChecked /\ perror # MustProvide) =>
        (pargs.model # NoneVal) # (pargs.model_config # NoneVal)

(***************************************************************************)
(* C9 as amended: the requirement check of the construction passes exactly *)
(* when at least one of a model instance and a model configuration is      *)
(* supplied (both may be); when neither is, the construction fails with    *)
(* the 'Must provide either a model or model config' error before any      *)
(* attribute is set and before any parallelism initialization, model       *)
(* loading or tracker logging.                                             *)
(***************************************************************************)
C9_AtLeastOne ==
    RequirementChecked =>
        /\ perror # MustProvide <=>
              (pargs.model # NoneVal \/ pargs.model_config # NoneVal)
        /\ perror = MustProvide =>
              (ppc = "failed" /\ plog = <<>> /\ DOMAIN self = {})

C9_Witness ==
    /\ ppc = "failed"
    /\ perror = MustProvide
    /\ pargs.model = NoneVal
    /\ pargs.model_config = NoneVal
    /\ pargs.launcher_type = "ACCELERATE"

\* _init_parallelism_manager has been run, to its return or to an exception.
ParallelismRan ==
    \E i \in 1..Len(plog) : plog[i] = "htrack_block: Test all gather"

(***************************************************************************)
(* C10: parallel context population.  Once parallelism initialization has  *)
(* run with the launcher's library available: with ACCELERATE only the     *)
(* accelerator is populated; with NANOTRON only the parallel context is,   *)
(* built from the tensor/pipeline/data sizes of the model configuration    *)
(* passed to the constructor; with NONE or TGI neither is.  The code       *)
(* breaks this for NANOTRON.                                               *)
(***************************************************************************)
C10_ParallelPopulation ==
    ParallelismRan =>
        /\ pargs.launcher_type = "ACCELERATE" =>
              (Attr("accelerator") = Accelerator /\ Attr("parallel_context") = NoneVal)
        /\ (pargs.launcher_type = "NANOTRON" /\ pargs.model_config # NoneVal) =>
              /\ Attr("accelerator") = NoneVal
              /\ Attr("parallel_context") =
                    ParallelContext(pargs.model_config.parallelism.tp,
                                    pargs.model_config.parallelism.pp,
                                    pargs.model_config.parallelism.dp)
        /\ pargs.launcher_type \in {"NONE", "TGI"} =>
              (Attr("accelerator") = NoneVal /\ Attr("parallel_context") = NoneVal)
        /\ ~(Attr("accelerator") # NoneVal /\ Attr("parallel_context") # NoneVal)

(***************************************************************************)
(* pipeline.py: _init_model and evaluate() on every instance               *)
(* _init_parallelism_manager is written to produce.  The run starts where  *)
(* __init__ calls _init_model, with the accelerator, the parallel context  *)
(* or neither populated, and goes on through the rest of __init__ and one  *)
(* call of evaluate() by one process of the job.  A temporary weights      *)
(* directory is present, missing or protected against deletion.            *)
(***************************************************************************)
MaxRank == 1   \* highest rank of a process of the job

RunInit ==
    \E model \in ModelInstances \cup {NoneVal},
       model_config \in ModelConfigs \cup {NoneVal},
       rank \in 0..MaxRank,
       delta \in {"present", "missing", "protected"},
       adapter \in {"present", "missing", "protected"} :
      \E par \in
           {[launcher_type |-> "ACCELERATE", accelerator |-> Accelerator,
             parallel_context |-> NoneVal],
            [launcher_type |-> "NONE", accelerator |-> NoneVal,
             parallel_context |-> NoneVal],
            [launcher_type |-> "TGI", accelerator |-> NoneVal,
             parallel_context |-> NoneVal]}
           \cup (IF model_config = NoneVal THEN {}
                 ELSE {[launcher_type |-> "NANOTRON", accelerator |-> NoneVal,
                        parallel_context |->
                            ParallelContext(model_config.parallelism.tp,
                                            model_config.parallelism.pp,
                                            model_config.parallelism.dp)]}) :
        /\ ModelOrConfigSupplied(model, model_config)
        /\ env = [accelerate |-> TRUE, nanotron |-> TRUE, tgi |-> TRUE]
        /\ pargs = [launcher_type |-> par.launcher_type, max_samples |-> NoneVal,
                    nanotron_checkpoint_path |-> Str("ckpt/dir/config.yaml"),
                    model |-> model, model_config |-> model_config]
        /\ ppc = "model"
        /\ self = [pipeline_parameters |->
                       [launcher_type |-> par.launcher_type, max_samples |-> NoneVal,
                        nanotron_checkpoint_path |-> pargs.nanotron_checkpoint_path],
                   launcher_type |-> par.launcher_type,
                   accelerator |-> par.accelerator,
                   parallel_context |-> par.parallel_context]
        /\ perror = NoneVal
        /\ plog = <<>>
        /\ proc = [is_main_process |-> (rank = 0), rank |-> rank]
        /\ fs = [delta |-> delta, adapter |-> adapter]
        /\ FakeIdle
        /\ EvalIdle
        /\ JudgeIdle
        /\ PureIdle

EvaluateThenTeardownAnyway ==
    /\ ppc = "constructed"
    /\ plog' = plog \o <<"log_args_info", "evaluate">>
    /\ \E ok \in BOOLEAN :
         IF ok THEN ppc' = "aggregate" /\ perror' = perror
               ELSE ppc' = "cleanup" /\ perror' = Exception("RuntimeError", "evaluate")
    /\ UNCHANGED <<env, pargs, self, fakeVars, evalVars, judgeVars, runVars, pureVars>>

\* evaluate(), lines 213 to 230: the arguments are logged and the evaluation
\* engine is run; an exception of the engine leaves evaluate().
PipelineEvaluate ==
    /\ ppc = "constructed"
    /\ plog' = plog \o <<"log_args_info", "evaluate">>
    /\ \E ok \in BOOLEAN :
         IF ok THEN ppc' = "aggregate" /\ perror' = perror
               ELSE ppc' = "raised" /\ perror' = Exception("RuntimeError", "evaluate")
    /\ UNCHANGED <<env, pargs, self, fakeVars, evalVars, judgeVars, runVars, pureVars>>

FalseOutsideParallelism(obj, p) ==
    IF obj.accelerator # NoneVal THEN p.is_main_process
    ELSE IF obj.parallel_context # NoneVal THEN p.rank = 0
    ELSE FALSE

\* Lines 232 to 239: the truth of the value evaluate() calls context, which
\* is a bool with an accelerator or a parallel context and the object
\* nullcontext(), true as any plain object, otherwise.
EvaluateContext(obj, p) ==
    IF Truthy(obj.accelerator) THEN p.is_main_process
    ELSE IF Truthy(obj.parallel_context) THEN p.rank = 0
    ELSE TRUE

\* Lines 239 to 243: the aggregation, which may raise.
PipelineAggregate ==
    /\ ppc = "aggregate"
    /\ IF EvaluateContext(self, proc)
          THEN \E ok \in BOOLEAN :
                 IF ok
                    THEN /\ plog' = plog \o <<"log_end_time",
                                              "metrics_logger.aggregate(bootstrap_iters=1000)",
                                              "details_logger.aggregate">>
                         /\ ppc' = "cleanup"
                         /\ perror' = perror
                    ELSE /\ plog' = plog \o <<"log_end_time",
                                              "metrics_logger.aggregate(bootstrap_iters=1000)">>
                         /\ ppc' = "raised"
                         /\ perror' = Exception("RuntimeError", "aggregate")
          ELSE /\ plog' = plog
               /\ ppc' = "cleanup"
               /\ perror' = perror
    /\ UNCHANGED <<env, pargs, self, fakeVars, evalVars, judgeVars, runVars, pureVars>>

ExceptPermissionError(e) == e.kind = "PermissionError"

\* except OSError: of what rmtree raises here, FileNotFoundError and
\* PermissionError are OSErrors.
ExceptOSError(e) == e.kind \in {"FileNotFoundError", "PermissionError"}

\* Lines 245 to 251, from the i-th kind of weights on: the directories after
\* the loop, its effects in order, and the exception that left it, if any.
\* rmtree removes a directory that is present and raises on any other.
RECURSIVE RemoveAppliedWeights(_, _, _)
RemoveAppliedWeights(model_name, dirs, i) ==
    IF i > 2 THEN [fs |-> dirs, effects |-> <<>>, error |-> NoneVal]
    ELSE LET weights == <<"delta", "adapter">>[i]
             tmp_weights_dir == model_name \o "-" \o weights \o "-applied"
             error == IF dirs[weights] = "present" THEN NoneVal
                      ELSE IF dirs[weights] = "missing"
                         THEN Exception("FileNotFoundError", "rmtree")
                      ELSE Exception("PermissionError", "rmtree")
             after == IF error = NoneVal THEN [dirs EXCEPT ![weights] = "removed"]
                      ELSE dirs
         IN IF error = NoneVal
               THEN LET rest == RemoveAppliedWeights(model_name, after, i + 1)
                    IN [rest EXCEPT !.effects =
                            <<"rmtree " \o tmp_weights_dir,
                              "hlog: Removed " \o tmp_weights_dir>> \o @]
            ELSE IF ExceptOSError(error)
               THEN LET rest == RemoveAppliedWeights(model_name, after, i + 1)
                    IN [rest EXCEPT !.effects = <<"rmtree " \o tmp_weights_dir>> \o @]
            ELSE [fs |-> after, effects |-> <<"rmtree " \o tmp_weights_dir>>,
                  error |-> error]

\* The deletion loop; the model name is the one the tracker was given when
\* the model information was logged.
PipelineRemoveWeights ==
    /\ ppc = "cleanup"
    /\ LET r == RemoveAppliedWeights(self.model.model_info.v, fs, 1) IN
         /\ fs' = r.fs
         /\ plog' = plog \o r.effects
         /\ IF r.error = NoneVal
               THEN ppc' = "model_cleanup" /\ perror' = perror
               ELSE ppc' = "raised" /\ perror' = r.error
    /\ UNCHANGED <<env, pargs, self, proc, fakeVars, evalVars, judgeVars, pureVars>>

\* Line 253: self.model.cleanup(), which may raise.
PipelineModelCleanup ==
    /\ ppc = "model_cleanup"
    /\ plog' = Append(plog, "model.cleanup")
    /\ \E ok \in BOOLEAN :
         IF ok THEN ppc' = "evaluated" /\ perror' = perror
               ELSE ppc' = "raised" /\ perror' = Exception("RuntimeError", "cleanup")
    /\ UNCHANGED <<env, pargs, self, fakeVars, evalVars, judgeVars, runVars, pureVars>>

RunNext ==
    \/ PipelineInitModel
    \/ PipelineLogModelInfo
    \/ PipelineInitTasksAndRequests
    \/ PipelineInitRandomSeeds
    \/ PipelineEvaluate
    \/ PipelineAggregate
    \/ PipelineRemoveWeights
    \/ PipelineModelCleanup

SpecRun == RunInit /\ [][RunNext]_vars

\* The entries of plog that are the given effect.
Occurrences(effect) == LET Is(e) == e = effect IN SelectSeq(plog, Is)

(***************************************************************************)
(* C11: model resolution.  Once _init_model has returned: with a model     *)
(* configuration and a parallel context, the model is the                  *)
(* distributed-checkpoint wrapper built on the directory of                *)
(* nanotron_checkpoint_path and the configuration, and the generic loader  *)
(* is not called; with a configuration and no parallel context, the model  *)
(* is the one the generic loader returns for that configuration, loaded    *)
(* between entering and leaving the accelerator's main-process-first       *)
(* section when there is an accelerator and with no gate when there is     *)
(* none; the supplied model instance is the model exactly when no          *)
(* configuration is supplied, and then nothing is loaded.                  *)
(***************************************************************************)
C11_ModelResolution ==
    "model" \in DOMAIN self =>
        LET model_config == pargs.model_config
            \* what _init_model did: the effects between the opening of its
            \* block and the logging of the model information
            stop == {k \in 1..Len(plog) : plog[k] = "log_model_info"}
            effects == SubSeq(plog, 2, IF stop = {} THEN Len(plog)
                                       ELSE (CHOOSE k \in stop : \A j \in stop : k <= j) - 1)
        IN /\ plog[1] = "htrack_block: Model loading"
           /\ (model_config # NoneVal /\ self.parallel_context # NoneVal) =>
                 /\ self.model.kind = "NanotronLightevalModel"
                 /\ self.model.checkpoint_path = Dirname(pargs.nanotron_checkpoint_path)
                 /\ self.model.nanotron_config = model_config
                 /\ effects = <<"NanotronLightevalModel">>
           /\ (model_config # NoneVal /\ self.parallel_context = NoneVal) =>
                 /\ self.model.kind = "loaded"
                 /\ self.model.config = model_config
                 /\ effects = IF self.accelerator # NoneVal
                                 THEN <<"main_process_first: enter", "load_model",
                                        "main_process_first: exit">>
                                 ELSE <<"load_model">>
           /\ (self.model = pargs.model) <=> (model_config = NoneVal)
           /\ model_config = NoneVal => effects = <<>>

C11_Witness ==
    /\ ppc = "model_info"
    /\ pargs.model # NoneVal
    /\ pargs.model_config # NoneVal
    /\ self.parallel_context # NoneVal
    /\ self.model.kind = "NanotronLightevalModel"

(***************************************************************************)
(* C12: main-process-only aggregation.  Once evaluate() is past its        *)
(* aggregation block, the end time was logged and the metric aggregation   *)
(* (with 1000 bootstrap iterations) was started exactly when the process   *)
(* is the accelerator's main process, or there is no accelerator and the   *)
(* process has rank 0 in the world group of the parallel context, or there *)
(* is neither an accelerator nor a parallel context; they are run at most  *)
(* once, in that order, followed by the detail aggregation unless the      *)
(* metric aggregation raised; on any other process none of the three runs. *)
(***************************************************************************)
C12_MainProcessAggregation ==
    LET aggregates ==
            \/ self.accelerator # NoneVal /\ proc.is_main_process
            \/ self.accelerator = NoneVal /\ self.parallel_context # NoneVal
                                          /\ proc.rank = 0
            \/ self.accelerator = NoneVal /\ self.parallel_context = NoneVal
        ran == Occurrences("log_end_time")
                 \o Occurrences("metrics_logger.aggregate(bootstrap_iters=1000)")
                 \o Occurrences("details_logger.aggregate")
        raised == ppc = "raised" /\ perror.msg = "aggregate"
        passed == \/ ppc \in {"cleanup", "model_cleanup", "evaluated"}
                  \/ ppc = "raised" /\ perror.msg \in {"aggregate", "cleanup"}
    IN IF ~passed THEN ran = <<>>
       ELSE IF ~aggregates THEN ran = <<>> /\ ~raised
       ELSE IF raised
          THEN ran = <<"log_end_time", "metrics_logger.aggregate(bootstrap_iters=1000)">>
       ELSE ran = <<"log_end_time", "metrics_logger.aggregate(bootstrap_iters=1000)",
                    "details_logger.aggregate">>

C12_Witness ==
    /\ ppc = "evaluated"
    /\ self.parallel_context # NoneVal
    /\ proc.rank = 0
    /\ Occurrences("details_logger.aggregate") # <<>>

(***************************************************************************)
(* C13: teardown on every rank.  On every process, whatever its rank and   *)
(* whether or not it aggregated, once evaluate() is past the deletion loop *)
(* (which it reaches unless the engine or the aggregation raised) it has   *)
(* attempted to delete '<model-name>-delta-applied' and then               *)
(* '<model-name>-adapter-applied', once each, whatever the state of either *)
(* directory; no failure of a deletion leaves evaluate(); the model's      *)
(* cleanup hook is called after the loop, never twice, and exactly once    *)
(* when evaluate() returns.                                                *)
(***************************************************************************)
C13_Teardown ==
    LET model_name == self.model.model_info.v
        IsAttempt(e) == e \in {"rmtree " \o model_name \o "-delta-applied",
                               "rmtree " \o model_name \o "-adapter-applied"}
        cleaned == ppc = "evaluated" \/ (ppc = "raised" /\ perror.msg = "cleanup")
    IN /\ perror.kind \notin {"OSError", "FileNotFoundError", "PermissionError"}
       /\ Len(Occurrences("model.cleanup")) <= 1
       /\ (ppc = "model_cleanup" \/ cleaned) =>
             SelectSeq(plog, IsAttempt) =
                 <<"rmtree " \o model_name \o "-delta-applied",
                   "rmtree " \o model_name \o "-adapter-applied">>
       /\ ppc = "model_cleanup" => Occurrences("model.cleanup") = <<>>
       /\ cleaned => /\ Len(Occurrences("model.cleanup")) = 1
                     /\ plog[Len(plog)] = "model.cleanup"

C13_Witness ==
    /\ ppc = "evaluated"
    /\ proc.rank # 0
    /\ self.accelerator # NoneVal
    /\ fs.delta = "missing"
    /\ fs.adapter = "removed"
    /\ Occurrences("log_end_time") = <<>>

(***************************************************************************)
(* tasks/multilingual/tasks.py: the catalog the import of the module       *)
(* builds, and what one row of a dataset goes through for one task of the  *)
(* catalog: the row filter of the task, then the adapter of its prompt     *)
(* function.  A language is written by the name of its Language member,    *)
(* which also stands for the member's value ("tag:" before it is its       *)
(* standardize_tag); a task is the record of the arguments of its          *)
(* LightevalTaskConfig, with the list it was built in as its family.       *)
(***************************************************************************)
\* formulation.name.lower() of MCFFormulation(), CFFormulation() and
\* HybridFormulation(), in the order of the comprehensions.
Formulations == <<"mcf", "cf", "hybrid">>

\* The thirteen lists, with their language lists as written, and their
\* concatenation.
TASKS_TABLE ==
    LET LightevalTaskConfig(family, prefix, language, formulation, hf_repo, hf_subset) ==
            [family |-> family,
             name |-> prefix \o "_" \o language \o "_" \o formulation,
             language |-> language,
             formulation |-> formulation,
             hf_repo |-> hf_repo,
             hf_subset |-> hf_subset]
        \* for language in languages for formulation in [...]
        ForEach(languages) ==
            [k \in 1..(Len(languages) * Len(Formulations)) |->
                [language |-> languages[((k - 1) \div Len(Formulations)) + 1],
                 formulation |-> Formulations[((k - 1) % Len(Formulations)) + 1]]]
        xnli_tasks ==
            LET Config(language, formulation) ==
                    LightevalTaskConfig("xnli_tasks", "xnli", language, formulation,
                                        "facebook/xnli",
                                        "tag:" \o language)
                each == ForEach(
                    <<"ARABIC", "ENGLISH", "FRENCH", "SPANISH",
                      "BULGARIAN", "GERMAN", "GREEK", "ENGLISH", "FRENCH",
                      "HINDI", "RUSSIAN", "SWAHILI", "THAI", "TURKISH",
                      "URDU", "VIETNAMESE", "CHINESE">>)
            IN [k \in DOMAIN each |-> Config(each[k].language, each[k].formulation)]
        xnli2_tasks ==
            LET Config(language, formulation) ==
                    LightevalTaskConfig("xnli2_tasks", "xnli2.0", language, formulation,
                                        "Harsit/xnli2.0_train_" \o language,
                                        "default")
                each == ForEach(
                    <<"ENGLISH", "FRENCH", "PUNJABI", "GUJARATI",
                      "KANNADA", "ASSAMESE", "BENGALI", "MARATHI",
                      "SANSKRIT", "TAMIL", "GERMAN", "ENGLISH", "URDU",
                      "VIETNAMESE", "TURKISH", "THAI", "SWAHILI",
                      "SPANISH", "RUSSIAN", "HINDI", "GREEK", "CHINESE",
                      "BULGARIAN", "ARABIC">>)
            IN [k \in DOMAIN each |-> Config(each[k].language, each[k].formulation)]
        xnli_indic_tasks ==
            LET Config(language, formulation) ==
                    LightevalTaskConfig("xnli_indic_tasks", "indicnxnli", language, formulation,
                                        "Divyanshu/indicxnli",
                                        "tag:" \o language)
                each == ForEach(
                    <<"ASSAMESE", "BENGALI", "GUJARATI", "HINDI",
                      "KANNADA", "MALAYALAM", "MARATHI", "ORIYA",
                      "PUNJABI", "TAMIL", "TELUGU">>)
            IN [k \in DOMAIN each |-> Config(each[k].language, each[k].formulation)]
        paws_x_tasks ==
            LET Config(language, formulation) ==
                    LightevalTaskConfig("paws_x_tasks", "pawsx", language, formulation,
                                        "google-research-datasets/paws-x",
                                        "tag:" \o language)
                each == ForEach(
                    <<"GERMAN", "ENGLISH", "SPANISH", "FRENCH", "JAPANESE",
                      "KOREAN", "CHINESE">>)
            IN [k \in DOMAIN each |-> Config(each[k].language, each[k].formulation)]
        rcb_tasks ==
            LET Config(language, formulation) ==
                    LightevalTaskConfig("rcb_tasks", "rcb", language, formulation,
                                        "ai-forever/MERA",
                                        "rcb")
                each == ForEach(
                    <<"RUSSIAN">>)
            IN [k \in DOMAIN each |-> Config(each[k].language, each[k].formulation)]
        ocnli_tasks ==
            LET Config(language, formulation) ==
                    LightevalTaskConfig("ocnli_tasks", "ocnli", language, formulation,
                                        "clue/clue",
                                        "ocnli")
                each == ForEach(
                    <<"CHINESE">>)
            IN [k \in DOMAIN each |-> Config(each[k].language, each[k].formulation)]
        cmnli_tasks ==
            LET Config(language, formulation) ==
                    LightevalTaskConfig("cmnli_tasks", "cmnli", language, formulation,
                                        "fenffef/cmnli",
                                        "default")
                each == ForEach(
                    <<"CHINESE">>)
            IN [k \in DOMAIN each |-> Config(each[k].language, each[k].formulation)]
        copa_tasks ==
            LET Config(language, formulation) ==
                    LightevalTaskConfig("copa_tasks", "xcopa", language, formulation,
                                        IF language = "ARABIC"
                                           THEN "OALL/AlGhafa-Arabic-LLM-Benchmark-Translated"
                                           ELSE "xcopa",
                                        IF language = "ARABIC" THEN "copa_ext_ar"
                                           ELSE "tag:" \o language)
                each == ForEach(
                    <<"ESTONIAN", "INDONESIAN", "ITALIAN", "SWAHILI",
                      "TAMIL", "THAI", "TURKISH", "VIETNAMESE", "CHINESE">>)
            IN [k \in DOMAIN each |-> Config(each[k].language, each[k].formulation)]
        copa_indic_tasks ==
            LET Config(language, formulation) ==
                    LightevalTaskConfig("copa_indic_tasks", "indicxcopa", language, formulation,
                                        "ai4bharat/IndicCOPA",
                                        "translation-" \o "tag:" \o language)
                each == ForEach(
                    <<"ASSAMESE", "BENGALI", "GUJARATI", "HINDI",
                      "KANNADA", "MALAYALAM", "MARATHI", "NEPALI", "ORIYA",
                      "PUNJABI", "SANSKRIT", "SINDHI", "TAMIL", "TELUGU",
                      "URDU">>)
            IN [k \in DOMAIN each |-> Config(each[k].language, each[k].formulation)]
        parus_tasks ==
            LET Config(language, formulation) ==
                    LightevalTaskConfig("parus_tasks", "parus", language, formulation,
                                        "ai-forever/MERA",
                                        "parus")
                each == ForEach(
                    <<"RUSSIAN">>)
            IN [k \in DOMAIN each |-> Config(each[k].language, each[k].formulation)]
        mlmm_hellaswag_tasks ==
            LET Config(language, formulation) ==
                    LightevalTaskConfig("mlmm_hellaswag_tasks", "hellaswag", language, formulation,
                                        "jon-tow/okapi_hellaswag",
                                        "tag:" \o language)
                each == ForEach(
                    <<"ARABIC", "BENGALI", "CATALAN", "DANISH", "GERMAN",
                      "SPANISH", "BASQUE", "FRENCH", "GUJARATI", "HINDI",
                      "CROATIAN", "HUNGARIAN", "ARMENIAN", "INDONESIAN",
                      "ICELANDIC", "ITALIAN", "KANNADA", "MALAYALAM",
                      "MARATHI", "NORWEGIAN", "NEPALI", "DUTCH",
                      "PORTUGUESE", "ROMANIAN", "RUSSIAN", "SLOVAK",
                      "SERBIAN", "SWEDISH", "TAMIL", "TELUGU", "UKRAINIAN",
                      "VIETNAMESE", "CHINESE">>)
            IN [k \in DOMAIN each |-> Config(each[k].language, each[k].formulation)]
        hellaswag_tur_tasks ==
            LET Config(language, formulation) ==
                    LightevalTaskConfig("hellaswag_tur_tasks", "hellaswag", language, formulation,
                                        "malhajar/hellaswag_tr-v0.2",
                                        "default")
                each == ForEach(
                    <<"TURKISH">>)
            IN [k \in DOMAIN each |-> Config(each[k].language, each[k].formulation)]
        hellaswag_tha_tasks ==
            LET Config(language, formulation) ==
                    LightevalTaskConfig("hellaswag_tha_tasks", "hellaswag", language, formulation,
                                        "HuggingFaceFW-Dev/hellaswag_thai",
                                        "default")
                each == ForEach(
                    <<"THAI">>)
            IN [k \in DOMAIN each |-> Config(each[k].language, each[k].formulation)]
    IN xnli_tasks \o xnli2_tasks \o xnli_indic_tasks \o paws_x_tasks \o rcb_tasks
       \o ocnli_tasks \o cmnli_tasks \o copa_tasks \o copa_indic_tasks \o parus_tasks
       \o mlmm_hellaswag_tasks \o hellaswag_tur_tasks \o hellaswag_tha_tasks

IsException(x) == x.kind \in {"ValueError", "TypeError", "KeyError"}

\* Python's int() of a value of a row.
int(v) ==
    LET digits == ("0" :> 0) @@ ("1" :> 1) @@ ("2" :> 2) @@ ("3" :> 3) IN
    IF v.kind = "int" THEN v
    ELSE IF v.kind = "str"
       THEN IF v.v \in DOMAIN digits THEN PyInt(digits[v.v])
            ELSE Exception("ValueError", "invalid literal for int()")
    ELSE Exception("TypeError", "int() argument must be a string or a number")

HfFilterKeepingNeutral(family, line) ==
    IF family \in {"xnli_tasks", "xnli2_tasks"}
       THEN [kind |-> "bool", v |-> line.label \in {PyInt(0), PyInt(1), PyInt(2)}]
       ELSE [kind |-> "bool", v |-> TRUE]

\* The hf_filter of the tasks of a list applied to a row: True, False or the
\* exception it raises; a list without hf_filter keeps every row.
HfFilter(family, line) ==
    LET IntIn(value, allowed) ==
            LET n == int(value) IN IF IsException(n) THEN n ELSE [kind |-> "bool", v |-> n.v \in allowed]
    IN IF family \in {"xnli_tasks", "xnli2_tasks"}
          THEN [kind |-> "bool", v |-> line.label \in {PyInt(0), PyInt(2)}]
       ELSE IF family = "xnli_indic_tasks" THEN IntIn(line.label, {0, 2})
       ELSE IF family = "rcb_tasks"
          THEN IntIn(IF Truthy(line.outputs) THEN line.outputs ELSE Str("0"), {1, 2})
       ELSE IF family = "ocnli_tasks" THEN IntIn(line.label, {1, 2})
       ELSE IF family = "cmnli_tasks"
          THEN [kind |-> "bool", v |-> line.label \in {Str("entailment"), Str("contradiction")}]
       ELSE [kind |-> "bool", v |-> TRUE]

\* The gold_idx the adapter of the tasks of a list computes for a row, or the
\* exception it raises.
GoldIdx(family, line) ==
    LET Subscript(dict, key) ==
            IF key \in DOMAIN dict THEN PyInt(dict[key])
            ELSE Exception("KeyError", "gold_idx")
        n == int(line.outputs)
    IN IF family \in {"xnli_tasks", "xnli2_tasks", "xnli_indic_tasks"}
          THEN Subscript((PyInt(0) :> 0) @@ (PyInt(2) :> 1), line.label)
       ELSE IF family = "ocnli_tasks"
          THEN Subscript((PyInt(1) :> 0) @@ (PyInt(2) :> 1), line.label)
       ELSE IF family = "cmnli_tasks"
          THEN Subscript((Str("entailment") :> 0) @@ (Str("contradiction") :> 1),
                         line.label)
       ELSE IF family \in {"rcb_tasks", "parus_tasks"}
          THEN IF IsException(n) THEN n ELSE PyInt(n.v - 1)
       ELSE int(line.label)

\* A row of the dataset of one task of the table; the label is held by the
\* column the task reads it from.
CatalogInit ==
    \E i \in 1..Len(TASKS_TABLE),
       label \in {PyInt(0), PyInt(1), PyInt(2), PyInt(3),
                  Str("0"), Str("1"), Str("2"), Str("3"),
                  Str("entailment"), Str("neutral"), Str("contradiction"),
                  Str(""), NoneVal} :
        /\ step = "row"
        /\ input = [index |-> i, task |-> TASKS_TABLE[i],
                    line |-> [label |-> label, outputs |-> label]]
        /\ output = NoneVal
        /\ FakeIdle
        /\ EvalIdle
        /\ JudgeIdle
        /\ PipeIdle
        /\ RunIdle

\* The dataset is filtered with the task's hf_filter when it is loaded.
ApplyHfFilter ==
    /\ step = "row"
    /\ LET keep == HfFilter(input.task.family, input.line) IN
         IF IsException(keep)
            THEN step' = "raised" /\ output' = keep
            ELSE /\ step' = IF keep.v THEN "kept" ELSE "rejected"
                 /\ output' = output
    /\ UNCHANGED <<input, fakeVars, evalVars, judgeVars, pipeVars, runVars>>

\* The prompt function calls the adapter on a row the filter kept.
ApplyAdapter ==
    /\ step = "kept"
    /\ LET gold_idx == GoldIdx(input.task.family, input.line) IN
         IF IsException(gold_idx)
            THEN step' = "raised" /\ output' = gold_idx
            ELSE step' = "adapted" /\ output' = [kind |-> "doc", gold_idx |-> gold_idx.v]
    /\ UNCHANGED <<input, fakeVars, evalVars, judgeVars, pipeVars, runVars>>

CatalogNext ==
    \/ ApplyHfFilter
    \/ ApplyAdapter

SpecCatalog == CatalogInit /\ [][CatalogNext]_vars

(***************************************************************************)
(* C14: catalog uniqueness.  The table a row's task is drawn from holds    *)
(* one task per (list, language, formulation), so the name of the task is  *)
(* the name of no other entry of TASKS_TABLE.  The code breaks this: the   *)
(* language lists of xnli_tasks and xnli2_tasks name a language twice.     *)
(***************************************************************************)
C14_UniqueNames ==
    step # "none" =>
        {i \in 1..Len(TASKS_TABLE) : TASKS_TABLE[i].name = input.task.name}
            = {input.index}

(***************************************************************************)
(* C15: XNLI label collapse.  For a task of xnli_tasks or xnli2_tasks, a   *)
(* row with label 1 is rejected by the row filter and its adapter is never *)
(* called; a row with label 0 or 2 is kept, and the adapter gives gold     *)
(* index 0 for label 0 and gold index 1 for label 2; no other row is kept  *)
(* and neither filter nor adapter raises.                                  *)
(***************************************************************************)
C15_XnliLabelCollapse ==
    (step # "none" /\ input.task.family \in {"xnli_tasks", "xnli2_tasks"}) =>
        LET label == input.line.label IN
        /\ label = PyInt(1) => step \in {"row", "rejected"}
        /\ label \in {PyInt(0), PyInt(2)} => step \in {"row", "kept", "adapted"}
        /\ step \in {"kept", "adapted"} => label \in {PyInt(0), PyInt(2)}
        /\ step = "adapted" =>
              output.gold_idx = IF label = PyInt(0) THEN 0 ELSE 1
        /\ step # "raised"

C15_Witness ==
    /\ step = "adapted"
    /\ input.task.name = "xnli2.0_HINDI_cf"
    /\ input.line.label = PyInt(2)
    /\ output.gold_idx = 1

(***************************************************************************)
(* C16: Arabic XCOPA source.  The table a row's task is drawn from has,    *)
(* in copa_tasks, one Arabic task per formulation, each with the           *)
(* repository OALL/AlGhafa-Arabic-LLM-Benchmark-Translated and the subset  *)
(* copa_ext_ar, and every task of copa_tasks for another language has the  *)
(* repository xcopa and the subset of its language.  The code breaks this: *)
(* the language list of copa_tasks has no Arabic.                          *)
(***************************************************************************)
C16_ArabicXcopa ==
    step # "none" =>
        LET XcopaTasks(language) ==
                {i \in 1..Len(TASKS_TABLE) :
                    /\ TASKS_TABLE[i].family = "copa_tasks"
                    /\ TASKS_TABLE[i].language = language}
        IN /\ {TASKS_TABLE[i].formulation : i \in XcopaTasks("ARABIC")}
                 = {Formulations[k] : k \in 1..Len(Formulations)}
           /\ Cardinality(XcopaTasks("ARABIC")) = Len(Formulations)
           /\ \A i \in XcopaTasks("ARABIC") :
                 /\ TASKS_TABLE[i].hf_repo = "OALL/AlGhafa-Arabic-LLM-Benchmark-Translated"
                 /\ TASKS_TABLE[i].hf_subset = "copa_ext_ar"
           /\ input.task.family = "copa_tasks" /\ input.task.language # "ARABIC" =>
                 /\ input.task.hf_repo = "xcopa"
                 /\ input.task.hf_subset = "tag:" \o input.task.language

(***************************************************************************)
(* community_tasks/multilingual/configs/tr.py: what the import of the      *)
(* module defines.  A task object is the record of its class and its       *)
(* constructor argument; two task objects built alike are equal and hash   *)
(* alike.  The subjects of MMLU_SUBSETS and the order in which a set is    *)
(* iterated are inputs.                                                    *)
(***************************************************************************)
MaxSubjects == 2   \* most subjects written in the MMLU_SUBSETS literal

Task(cls, argument) == [kind |-> "task", cls |-> cls, argument |-> argument]

\* typing.get_args of a Literal: its parameters in order, each kept at its
\* first occurrence.
RECURSIVE get_args(_)
get_args(literal) ==
    IF literal = <<>> THEN <<>>
    ELSE LET front == get_args(SubSeq(literal, 1, Len(literal) - 1))
             x == literal[Len(literal)]
         IN IF \E i \in DOMAIN front : front[i] = x THEN front ELSE Append(front, x)

GENERATIVE_TASKS == <<Task("XquadTask", "tr"), Task("Tquad2Task", "")>>

MC_TASKS(subsets) ==
    <<Task("BelebeleTask", "tr"), Task("XNLITask", "tr"), Task("XCopaTask", "tr"),
      Task("ExamsTask", "tr"), Task("HellaSwagTrTask", ""),
      Task("TruthfulQATrTask", "mc1"), Task("TruthfulQATrTask", "mc2"),
      Task("ARCEasyTrTask", ""), Task("WinogradeTrTask", "")>>
    \o [i \in DOMAIN subsets |-> Task("MMLUTaskTr", subsets[i])]

\* list(set(xs)): the distinct elements of xs, in an order the hashing
\* chooses; the orders taken are the rotations of the order of first
\* occurrence and their reversals.
ListOfSet(xs, rotation, reversed) ==
    LET distinct == get_args(xs)
        n == Len(distinct)
        rotated == [i \in 1..n |-> distinct[((i - 1 + rotation) % n) + 1]]
    IN IF reversed THEN [i \in 1..n |-> rotated[n + 1 - i]] ELSE rotated

AllTasksOfMcOnly(generative, mc, rotation, reversed) ==
    ListOfSet(mc, rotation, reversed)

\* list(set(_GENERATIVE_TASKS + _MC_TASKS))
ALL_TASKS(generative, mc, rotation, reversed) ==
    ListOfSet(generative \o mc, rotation, reversed)

\* tasks_to_string: one entry per task of the list, in order.
tasks_to_string(tasks) ==
    [i \in DOMAIN tasks |-> tasks[i].cls \o "(" \o tasks[i].argument \o ")"]

\* task.as_dict()
as_dict(task) == [kind |-> "dict", cls |-> task.cls, argument |-> task.argument]

\* The literal holds at most MaxSubjects subjects, repetitions included.
TurkishInit ==
    \E literal \in UNION {[1..k -> {"anatomy", "law", "virology"}] : k \in 0..MaxSubjects},
       rotation \in 0..(Len(GENERATIVE_TASKS) + Len(MC_TASKS(<<>>)) - 1),
       reversed \in BOOLEAN :
        /\ step = "tr"
        /\ input = [MMLU_SUBSETS |-> literal, rotation |-> rotation,
                    reversed |-> reversed]
        /\ output = <<>>
        /\ FakeIdle
        /\ EvalIdle
        /\ JudgeIdle
        /\ PipeIdle
        /\ RunIdle

\* The import of the module: the two lists, their union, the groups and the
\* table.
ImportTr ==
    /\ step = "tr"
    /\ LET generative == GENERATIVE_TASKS
           mc == MC_TASKS(get_args(input.MMLU_SUBSETS))
           all == ALL_TASKS(generative, mc, input.rotation, input.reversed)
       IN output' =
            [GENERATIVE_TASKS |-> generative,
             MC_TASKS |-> mc,
             ALL_TASKS |-> all,
             TASKS_GROUPS |->
                [all |-> tasks_to_string(all),
                 generative |-> tasks_to_string(generative),
                 mc |-> tasks_to_string(mc),
                 xnli |-> tasks_to_string(<<Task("XNLITask", "tr")>>)],
             TASKS_TABLE |-> [i \in DOMAIN all |-> as_dict(all[i])]]
    /\ step' = "tr: imported"
    /\ UNCHANGED <<input, fakeVars, evalVars, judgeVars, pipeVars, runVars>>

SpecTurkish == TurkishInit /\ [][ImportTr]_vars

(***************************************************************************)
(* C17: Turkish 'all' group.  Once tr.py is imported, every task of the    *)
(* generative list and of the multiple-choice list occurs exactly once in  *)
(* _ALL_TASKS, in the 'all' group and (as its dictionary) in TASKS_TABLE,  *)
(* which hold nothing else, so each has the size of the deduplicated union *)
(* of the two lists; the multiple-choice list is the nine named tasks      *)
(* followed by exactly one MMLUTaskTr per subject of MMLU_SUBSETS.         *)
(***************************************************************************)
C17_TurkishAll ==
    step = "tr: imported" =>
        LET Range(xs) == {xs[i] : i \in DOMAIN xs}
            Count(xs, x) == Cardinality({i \in DOMAIN xs : xs[i] = x})
            union == Range(output.GENERATIVE_TASKS) \cup Range(output.MC_TASKS)
            subjects == Range(input.MMLU_SUBSETS)
        IN /\ \A t \in union :
                /\ Count(output.ALL_TASKS, t) = 1
                /\ Count(output.TASKS_GROUPS.all, tasks_to_string(<<t>>)[1]) = 1
                /\ Count(output.TASKS_TABLE, as_dict(t)) = 1
           /\ Len(output.ALL_TASKS) = Cardinality(union)
           /\ Len(output.TASKS_GROUPS.all) = Cardinality(union)
           /\ Len(output.TASKS_TABLE) = Cardinality(union)
           /\ SubSeq(output.MC_TASKS, 1, 9) = MC_TASKS(<<>>)
           /\ Len(output.MC_TASKS) = 9 + Cardinality(subjects)
           /\ \A subject \in subjects :
                Count(output.MC_TASKS, Task("MMLUTaskTr", subject)) = 1
           /\ \A i \in 10..Len(output.MC_TASKS) :
                /\ output.MC_TASKS[i].cls = "MMLUTaskTr"
                /\ output.MC_TASKS[i].argument \in subjects

C17_Witness ==
    /\ step = "tr: imported"
    /\ input.MMLU_SUBSETS = <<"law", "anatomy">>
    /\ input.rotation = 3
    /\ Len(output.TASKS_TABLE) = 13
    /\ output.ALL_TASKS[1] = Task("XNLITask", "tr")

(***************************************************************************)
(* tasks/templates/hellaswag.py: the prompt function of a HellaSwag task   *)
(* applied to one row.  A text is the sequence of its tokens: a space, a   *)
(* bracket, a full stop, or a word; the word "title" between brackets and  *)
(* after a space is the placeholder " [title]".                            *)
(***************************************************************************)
MaxTextLen == 5   \* most tokens in the drawn text of a row

\* str.replace from position i on: the occurrences of old, found from left
\* to right without overlap, are replaced by new.
RECURSIVE replace(_, _, _, _)
replace(text, old, new, i) ==
    IF i > Len(text) THEN <<>>
    ELSE IF i + Len(old) - 1 <= Len(text) /\ SubSeq(text, i, i + Len(old) - 1) = old
       THEN new \o replace(text, old, new, i + Len(old))
    ELSE <<text[i]>> \o replace(text, old, new, i + 1)

\* re.sub("\\[.*?\\]", "", text) from position i on: an opening bracket with
\* a closing bracket after it is removed with everything up to the first
\* such closing bracket.
RECURSIVE SubBrackets(_, _)
SubBrackets(text, i) ==
    IF i > Len(text) THEN <<>>
    ELSE LET closing == {j \in (i + 1)..Len(text) : text[j] = "]"} IN
         IF text[i] = "[" /\ closing # {}
            THEN SubBrackets(text, (CHOOSE j \in closing :
                                        \A k \in closing : j <= k) + 1)
            ELSE <<text[i]>> \o SubBrackets(text, i + 1)

\* str.strip, or str.rstrip when only the right side is stripped
strip(text, left) ==
    LET solid == {i \in 1..Len(text) : text[i] # " "} IN
    IF solid = {} THEN <<>>
    ELSE SubSeq(text, IF left THEN CHOOSE i \in solid : \A k \in solid : i <= k ELSE 1,
                      CHOOSE j \in solid : \A k \in solid : k <= j)

\* for dot_repl in dot_replacement: text = text.replace(dot_repl, ". ")
RECURSIVE ReplaceDots(_, _, _)
ReplaceDots(text, dot_replacement, k) ==
    IF k > Len(dot_replacement) THEN text
    ELSE ReplaceDots(replace(text, dot_replacement[k], <<".", " ">>, 1),
                     dot_replacement, k + 1)

preprocess(text, dot_replacement) ==
    LET dotted == ReplaceDots(text, dot_replacement, 1)
        unbracketed == SubBrackets(dotted, 1)
        collapsed == replace(unbracketed, <<" ", " ">>, <<" ">>, 1)
        literal == replace(collapsed, <<"\\", ".", "+">>, <<"\\", ".">>, 1)
    IN strip(literal, TRUE)

\* The first letter of the text in upper case.
capitalize(text) ==
    IF text = <<>> THEN text
    ELSE IF text[1] = "a" THEN <<"A">> \o Tail(text)
    ELSE IF text[1] = "title" THEN <<"Title">> \o Tail(text)
    ELSE text

process_context(ctx, dot_replacement) ==
    LET \* The text, ended by a full stop if it has no end punctuation.
        fix_ending_punct(text) ==
            LET t == strip(text, TRUE) IN
            IF t = <<>> \/ t[Len(t)] = "." THEN t ELSE Append(t, ".")
    IN IF ctx = <<>> THEN <<>>
       ELSE capitalize(fix_ending_punct(preprocess(ctx, dot_replacement)))

\* sentence_space and word_space are both one space.
join_ctxs(ctx_a, ctx_b) ==
    LET is_ended_sentence(text) ==
            LET t == strip(text, FALSE) IN t # <<>> /\ t[Len(t)] = "."
        decapitalize(text) ==
            IF text = <<>> THEN text
            ELSE IF text[1] = "A" THEN <<"a">> \o Tail(text)
            ELSE IF text[1] = "Title" THEN <<"title">> \o Tail(text)
            ELSE text
        \* The text in the capitalization that follows the previous text.
        fix_capitalization(prev, text) ==
            IF prev = <<>> \/ is_ended_sentence(prev) THEN capitalize(text)
            ELSE decapitalize(text)
    IN strip(ctx_a, FALSE) \o <<" ">> \o fix_capitalization(ctx_a, ctx_b)

\* hellaswag_prompt on a row without activity label: the context and the
\* continuations handed to the continuation prompt function.
hellaswag_prompt(line, dot_replacement) ==
    LET ctx_a == capitalize(line.ctx_a)
        ctx_b == line.ctx_b
        full_context ==
            IF ctx_b # <<>>
               THEN join_ctxs(process_context(ctx_a, dot_replacement),
                              process_context(ctx_b, dot_replacement))
               ELSE ctx_a
    IN [kind |-> "doc",
        query |-> full_context,
        choices |-> [i \in DOMAIN line.continuations |->
                        preprocess(line.continuations[i], dot_replacement)]]

\* A text of at most MaxTextLen tokens is the only context of the row, the
\* first of its two contexts, or one of its continuations; dot_replacement
\* is the default of get_hellaswag_prompt_function or the list
\* hellaswag_tur_tasks passes.
HellaswagInit ==
    \E text \in UNION {[1..k -> {"a", " ", "[", "title", "]"}] : k \in 0..MaxTextLen},
       dot_replacement \in
          {<< <<" ", "[", "title", "]">> >>,
           << <<" ", "[", "title", "]">>, <<" ", "[", "baslik", "]">>,
              <<" ", "[", "adim", "]">>, <<" ", "[", "header", "]">> >>} :
      \E line \in
          {[ctx_a |-> text, ctx_b |-> <<>>,
            continuations |-> << <<"a">>, <<"title">> >>],
           [ctx_a |-> text, ctx_b |-> <<"a", " ", "[", "title", "]">>,
            continuations |-> << <<"a">>, <<"title">> >>],
           [ctx_a |-> <<"a">>, ctx_b |-> <<"title">>,
            continuations |-> << <<"a">>, text >>]} :
        /\ step = "hellaswag: row"
        /\ input = [line |-> line, dot_replacement |-> dot_replacement]
        /\ output = NoneVal
        /\ FakeIdle
        /\ EvalIdle
        /\ JudgeIdle
        /\ PipeIdle
        /\ RunIdle

HellaswagPrompt ==
    /\ step = "hellaswag: row"
    /\ output' = hellaswag_prompt(input.line, input.dot_replacement)
    /\ step' = "hellaswag: prompt"
    /\ UNCHANGED <<input, fakeVars, evalVars, judgeVars, pipeVars, runVars>>

SpecHellaswag == HellaswagInit /\ [][HellaswagPrompt]_vars

(***************************************************************************)
(* C18: HellaSwag placeholder cleanup.  For every row, with or without a   *)
(* secondary context, neither the rendered query nor any rendered          *)
(* continuation contains a configured placeholder.  The code breaks this   *)
(* for the query of a row without secondary context.                       *)
(***************************************************************************)
C18_NoPlaceholder ==
    step = "hellaswag: prompt" =>
        LET Contains(text, part) ==
                \E i \in 1..(Len(text) - Len(part) + 1) :
                    SubSeq(text, i, i + Len(part) - 1) = part
        IN \A k \in DOMAIN input.dot_replacement :
              /\ ~Contains(output.query, input.dot_replacement[k])
              /\ \A i \in DOMAIN output.choices :
                    ~Contains(output.choices[i], input.dot_replacement[k])

(***************************************************************************)
(* C19: HellaSwag space collapse.  Every cleaned continuation, and every   *)
(* cleaned context, has no two consecutive spaces, and cleaning it again   *)
(* changes nothing.  The code breaks this for a run of three or more       *)
(* spaces.                                                                 *)
(***************************************************************************)
C19_SpacesCollapsed ==
    step = "hellaswag: prompt" =>
        LET cleaned == {output.choices[i] : i \in DOMAIN output.choices}
                         \cup {preprocess(input.line.ctx_a, input.dot_replacement)}
        IN \A text \in cleaned :
              /\ \A i \in 1..(Len(text) - 1) : ~(text[i] = " " /\ text[i + 1] = " ")
              /\ preprocess(text, input.dot_replacement) = text

(***************************************************************************)
(* config/lighteval_config.py: the construction of a GenerationArgs.  A    *)
(* sampler given as text is a str whose value is the sequence of its       *)
(* characters, so that upper() has something to do.                        *)
(***************************************************************************)
DEFAULT_GENERATION_SEED == 42

LowerCase == <<"g", "r", "e", "d", "y", "t", "o", "p", "k", "b", "a", "s", "i", "c">>

UpperCase == <<"G", "R", "E", "D", "Y", "T", "O", "P", "K", "B", "A", "S", "I", "C">>

\* str.upper
upper(text) ==
    [i \in DOMAIN text |->
        IF \E k \in DOMAIN LowerCase : LowerCase[k] = text[i]
           THEN UpperCase[CHOOSE k \in DOMAIN LowerCase : LowerCase[k] = text[i]]
           ELSE text[i]]

\* The names of the members of SamplerType.
SamplerTypeNames ==
    {<<"T", "O", "P", "_", "P">>, <<"T", "O", "P", "_", "K">>,
     <<"G", "R", "E", "E", "D", "Y">>, <<"B", "A", "S", "I", "C">>}

\* SamplerType[name]
SamplerType(name) ==
    IF name \in SamplerTypeNames THEN [kind |-> "SamplerType", name |-> name]
    ELSE Exception("KeyError", "SamplerType")

SeedOrDefaultWhenFalsy(seed) ==
    IF Truthy(seed) THEN seed ELSE PyInt(DEFAULT_GENERATION_SEED)

\* if self.seed is None: self.seed = DEFAULT_GENERATION_SEED
SeedOrDefault(seed) ==
    IF seed = NoneVal THEN PyInt(DEFAULT_GENERATION_SEED) ELSE seed

\* The sampler is unset, a member, the name of a member in any letter case,
\* or a text that names no member.
GenerationArgsInit ==
    LET CaseVariants(text) ==
            {[i \in DOMAIN text |->
                 IF i \in raised THEN upper(<<text[i]>>)[1] ELSE text[i]] :
                raised \in SUBSET DOMAIN text}
    IN \E sampler \in
            {NoneVal}
            \cup {SamplerType(name) : name \in SamplerTypeNames}
            \cup {Str(t) : t \in CaseVariants(<<"g", "r", "e", "e", "d", "y">>)}
            \cup {Str(t) : t \in CaseVariants(<<"t", "o", "p", "_", "k">>)}
            \cup {Str(<<>>), Str(<<"g", "r", "e", "e", "d">>),
                  Str(<<"G", "R", "E", "E", "D", "Y", " ">>), Str(<<"t", "o", "p">>)},
          seed \in {NoneVal, PyInt(0), PyInt(1), PyInt(42), PyInt(1234)} :
        /\ step = "GenerationArgs"
        /\ input = [sampler |-> sampler, seed |-> seed]
        /\ output = NoneVal
        /\ FakeIdle
        /\ EvalIdle
        /\ JudgeIdle
        /\ PipeIdle
        /\ RunIdle

\* GenerationArgs.__post_init__ on the fields the dataclass was given.
GenerationArgsPostInit ==
    /\ step = "GenerationArgs"
    /\ LET sampler == IF input.sampler.kind = "str"
                         THEN SamplerType(upper(input.sampler.v))
                         ELSE input.sampler
       IN IF sampler.kind = "KeyError"
             THEN step' = "GenerationArgs: raised" /\ output' = sampler
             ELSE /\ step' = "GenerationArgs: constructed"
                  /\ output' = [kind |-> "GenerationArgs", sampler |-> sampler,
                                seed |-> SeedOrDefault(input.seed)]
    /\ UNCHANGED <<input, fakeVars, evalVars, judgeVars, pipeVars, runVars>>

SpecGenerationArgs == GenerationArgsInit /\ [][GenerationArgsPostInit]_vars

(***************************************************************************)
(* C20: GenerationArgs normalization.  A sampler given as text that is the *)
(* name of a member of the sampler enum in any letter case is resolved to  *)
(* that member ('greedy' in any case gives GREEDY); a text that is the     *)
(* name of no member makes the construction fail, and nothing else does;   *)
(* a sampler given as a member or left unset is kept; an unset seed        *)
(* becomes 42 and a supplied seed, 0 included, is kept.                    *)
(***************************************************************************)
C20_GenerationArgs ==
    step # "GenerationArgs" =>
        LET \* Two texts are the same up to the case of their letters.
            SameLetters(a, b) ==
                /\ Len(a) = Len(b)
                /\ \A i \in DOMAIN a :
                      \/ a[i] = b[i]
                      \/ \E k \in DOMAIN LowerCase :
                            {a[i], b[i]} = {LowerCase[k], UpperCase[k]}
            named == IF input.sampler.kind = "str"
                        THEN {n \in SamplerTypeNames : SameLetters(n, input.sampler.v)}
                        ELSE {}
            GREEDY == [kind |-> "SamplerType", name |-> <<"G", "R", "E", "E", "D", "Y">>]
        IN /\ step = "GenerationArgs: raised" <=>
                (input.sampler.kind = "str" /\ named = {})
           /\ step = "GenerationArgs: raised" => output.kind = "KeyError"
           /\ step = "GenerationArgs: constructed" =>
                /\ input.sampler.kind = "str" =>
                      (output.sampler.kind = "SamplerType" /\ output.sampler.name \in named)
                /\ (input.sampler.kind = "str"
                    /\ SameLetters(input.sampler.v, <<"g", "r", "e", "e", "d", "y">>)) =>
                      output.sampler = GREEDY
                /\ input.sampler.kind # "str" => output.sampler = input.sampler
                /\ input.seed = NoneVal => output.seed = PyInt(42)
                /\ input.seed # NoneVal => output.seed = input.seed

C20_Witness ==
    /\ step = "GenerationArgs: constructed"
    /\ input.sampler = Str(<<"G", "r", "e", "E", "d", "y">>)
    /\ input.seed = PyInt(0)
    /\ output.sampler.name = <<"G", "R", "E", "E", "D", "Y">>
    /\ output.seed = PyInt(0)

(***************************************************************************)
(* config/lighteval_config.py: the construction of a                       *)
(* LightEvalWandbLoggerConfig from keyword arguments; a field that is not  *)
(* given takes the default of the dataclass.  Assertions are enabled, as   *)
(* they are unless the interpreter is started with -O.                     *)
(***************************************************************************)
\* The call LightEvalWandbLoggerConfig(**kwargs) to make.
WandbInit ==
    \E given \in SUBSET {"wandb_project", "wandb_entity", "wandb_run_name"} :
      \E kwargs \in [given -> {Str(""), Str("lighteval"), Str(" "), Str("runs")}] :
        /\ step = "Wandb"
        /\ input = kwargs
        /\ output = NoneVal
        /\ FakeIdle
        /\ EvalIdle
        /\ JudgeIdle
        /\ PipeIdle
        /\ RunIdle

AssertAlwaysPasses(obj) == TRUE

\* assert self.wandb_project != "", "Please specify a wandb_project"
AssertWandbProject(obj) == obj.wandb_project # Str("")

\* The generated __init__, which assigns the fields and calls __post_init__.
WandbPostInit ==
    /\ step = "Wandb"
    /\ LET Field(name, default) == IF name \in DOMAIN input THEN input[name] ELSE default
           obj == [kind |-> "LightEvalWandbLoggerConfig",
                   wandb_project |-> Field("wandb_project", Str("")),
                   wandb_entity |-> Field("wandb_entity", NoneVal),
                   wandb_run_name |-> Field("wandb_run_name", NoneVal)]
       IN IF AssertWandbProject(obj)
             THEN step' = "Wandb: constructed" /\ output' = obj
             ELSE /\ step' = "Wandb: raised"
                  /\ output' = Exception("AssertionError", "Please specify a wandb_project")
    /\ UNCHANGED <<input, fakeVars, evalVars, judgeVars, pipeVars, runVars>>

SpecWandb == WandbInit /\ [][WandbPostInit]_vars

(***************************************************************************)
(* C21: Wandb project validation.  A construction with an empty project    *)
(* name, given as "" or not given at all, fails; a construction with a     *)
(* non-empty project name succeeds and the object holds that name.         *)
(***************************************************************************)
C21_WandbProject ==
    step # "Wandb" =>
        LET empty == "wandb_project" \notin DOMAIN input
                       \/ input["wandb_project"] = Str("")
        IN /\ empty => step = "Wandb: raised" /\ output.kind = "AssertionError"
           /\ ~empty => /\ step = "Wandb: constructed"
                        /\ output.wandb_project = input["wandb_project"]

C21_Witness ==
    /\ step = "Wandb: raised"
    /\ "wandb_project" \notin DOMAIN input
    /\ "wandb_entity" \in DOMAIN input

(***************************************************************************)
(* pipeline.py: the attributes of the instance each step of __init__       *)
(* reads, on the instance as it is when the step starts.                   *)
(***************************************************************************)
AttributesRead(pc, obj) ==
    IF pc = "parallelism"
       THEN {"launcher_type"}
            \cup (IF obj.launcher_type = "NANOTRON" THEN {"model_config"} ELSE {})
    ELSE IF pc = "model"
       THEN IF obj.model_config # NoneVal
               THEN {"model_config", "parallel_context", "accelerator",
                     "pipeline_parameters"}
               ELSE {"model_config"}
    ELSE IF pc = "model_info" THEN {"evaluation_tracker", "model"}
    ELSE IF pc = "tasks"
       THEN {"launcher_type", "pipeline_parameters", "evaluation_tracker", "model"}
    ELSE IF pc = "seeds" THEN {"accelerator", "parallel_context"}
    ELSE {}

(***************************************************************************)
(* C22: construction order.  In a construction that succeeds, the effects  *)
(* of parallelism initialization, of model resolution, of the recording of *)
(* the model metadata, of task and request construction and of seeding     *)
(* happen once each and in this order, all the effects of a step before    *)
(* the first of the next; and a step of a construction that goes on to     *)
(* the next step reads only attributes that are set when it starts (for    *)
(* model resolution, set by the two assignments of __init__ before it).    *)
(***************************************************************************)
C22_ConstructionOrder ==
    LET Position(effect) == {i \in 1..Len(plog) : plog[i] = effect}
        first == <<"htrack_block: Test all gather", "htrack_block: Model loading",
                   "log_model_info", "htrack_block: Tasks loading",
                   "random.seed(1234)">>
        StepOf(effect) ==
            IF effect \in {"hlog: max_samples warning"} THEN 0
            ELSE IF effect \in {"htrack_block: Test all gather", "Accelerator",
                                "test_all_gather(accelerator)",
                                "dist.initialize_torch_distributed", "ParallelContext",
                                "test_all_gather(parallel_context)"} THEN 1
            ELSE IF effect \in {"htrack_block: Model loading", "NanotronLightevalModel",
                                "main_process_first: enter", "load_model",
                                "main_process_first: exit"} THEN 2
            ELSE IF effect = "log_model_info" THEN 3
            ELSE IF effect \in {"htrack_block: Tasks loading", "local_ranks_zero_first",
                                "load_datasets", "task_config_logger.log",
                                "create_requests_from_tasks"} THEN 4
            ELSE 5
        goes_on == IF ppc = "parallelism"
                      THEN InitParallelismManager(self, env).error = NoneVal
                      ELSE ppc \in {"model", "model_info", "tasks", "seeds"}
        set == IF ppc = "model"
                  THEN DOMAIN self \cup {"evaluation_tracker", "model_config"}
                  ELSE DOMAIN self
        obj == IF ppc = "model"
                  THEN [model_config |-> pargs.model_config] ELSE self
    IN /\ ppc = "constructed" =>
            /\ \A k \in 1..5 : Cardinality(Position(first[k])) = 1
            /\ \A i, j \in 1..Len(plog) : i < j => StepOf(plog[i]) <= StepOf(plog[j])
       /\ goes_on => AttributesRead(ppc, obj) \subseteq set

C22_Witness ==
    /\ ppc = "constructed"
    /\ pargs.launcher_type = "ACCELERATE"
    /\ pargs.model_config # NoneVal
    /\ pargs.max_samples # NoneVal
    /\ \E i \in 1..Len(plog) : plog[i] = "main_process_first: enter"
    /\ plog[Len(plog)] = "accelerator.wait_for_everyone"

(***************************************************************************)
(* pipeline.py: _init_random_seeds run by every process of a job, and the  *)
(* start of evaluate().  proc holds the attributes of the Pipeline the     *)
(* processes share and, for each rank, its position, the seeds of its two  *)
(* generators and the number of barriers it has entered.  A barrier        *)
(* (accelerator.wait_for_everyone, dist.barrier) lets a process leave once *)
(* every process of the job has entered it.  A job without accelerator     *)
(* and without parallel context has one process.                           *)
(***************************************************************************)
MaxWorldSize == 3   \* most processes of a job

SeedsInit ==
    \E world \in 1..MaxWorldSize,
       par \in {[accelerator |-> Accelerator, parallel_context |-> NoneVal],
                [accelerator |-> NoneVal, parallel_context |-> ParallelContext(1, 1, 1)],
                [accelerator |-> NoneVal, parallel_context |-> NoneVal]} :
        /\ (par.accelerator = NoneVal /\ par.parallel_context = NoneVal) => world = 1
        /\ proc = [kind |-> "job",
                   accelerator |-> par.accelerator,
                   parallel_context |-> par.parallel_context,
                   ranks |-> [r \in 0..(world - 1) |->
                                 [pc |-> "seeds", random |-> NoneVal, numpy |-> NoneVal,
                                  entered |-> 0]]]
        /\ fs = NoneVal
        /\ FakeIdle
        /\ EvalIdle
        /\ JudgeIdle
        /\ PipeIdle
        /\ PureIdle

\* random.seed(1234); np.random.seed(1234)
SetSeeds(r) ==
    /\ proc.ranks[r].pc = "seeds"
    /\ proc' = [proc EXCEPT !.ranks[r].pc = "seeded",
                            !.ranks[r].random = PyInt(1234),
                            !.ranks[r].numpy = PyInt(1234)]
    /\ UNCHANGED <<fs, fakeVars, evalVars, judgeVars, pipeVars, pureVars>>

NoBarrier(r) ==
    /\ proc.ranks[r].pc = "seeded"
    /\ proc' = [proc EXCEPT !.ranks[r].pc = "constructed"]
    /\ UNCHANGED <<fs, fakeVars, evalVars, judgeVars, pipeVars, pureVars>>

\* The two tests of _init_random_seeds: the process enters the next barrier
\* it has to perform, or returns when none is left.
EnterBarrier(r) ==
    /\ proc.ranks[r].pc = "seeded"
    /\ LET barriers == (IF proc.accelerator # NoneVal THEN 1 ELSE 0)
                         + (IF proc.parallel_context # NoneVal THEN 1 ELSE 0)
       IN IF proc.ranks[r].entered < barriers
             THEN proc' = [proc EXCEPT !.ranks[r].pc = "waiting",
                                       !.ranks[r].entered = @ + 1]
             ELSE proc' = [proc EXCEPT !.ranks[r].pc = "constructed"]
    /\ UNCHANGED <<fs, fakeVars, evalVars, judgeVars, pipeVars, pureVars>>

\* The barrier returns: every process has entered it.
LeaveBarrier(r) ==
    /\ proc.ranks[r].pc = "waiting"
    /\ \A q \in DOMAIN proc.ranks : proc.ranks[q].entered >= proc.ranks[r].entered
    /\ proc' = [proc EXCEPT !.ranks[r].pc = "seeded"]
    /\ UNCHANGED <<fs, fakeVars, evalVars, judgeVars, pipeVars, pureVars>>

\* The caller of the constructor calls evaluate().
StartEvaluate(r) ==
    /\ proc.ranks[r].pc = "constructed"
    /\ proc' = [proc EXCEPT !.ranks[r].pc = "evaluating"]
    /\ UNCHANGED <<fs, fakeVars, evalVars, judgeVars, pipeVars, pureVars>>

SpecSeeds ==
    SeedsInit /\ [][\E r \in DOMAIN proc.ranks : \/ SetSeeds(r)
                                                 \/ EnterBarrier(r)
                                                 \/ LeaveBarrier(r)
                                                 \/ StartEvaluate(r)]_vars

(***************************************************************************)
(* C23: seed barrier.  A process that is past the seed-setting has both    *)
(* seeds at 1234; a process enters a barrier only with its seeds set, and  *)
(* a process that has completed construction has performed a barrier if    *)
(* and only if the accelerator or the parallel context is populated; when  *)
(* a process has completed construction or started evaluate(), every       *)
(* process of the job has set its seeds.                                   *)
(***************************************************************************)
C23_SeedBarrier ==
    proc.kind = "job" =>
        LET Seeded(q) == proc.ranks[q].random = PyInt(1234)
                           /\ proc.ranks[q].numpy = PyInt(1234)
            populated == proc.accelerator # NoneVal \/ proc.parallel_context # NoneVal
        IN \A r \in DOMAIN proc.ranks :
              /\ proc.ranks[r].pc # "seeds" => Seeded(r)
              /\ proc.ranks[r].entered > 0 => Seeded(r)
              /\ proc.ranks[r].pc \in {"constructed", "evaluating"} =>
                    /\ proc.ranks[r].entered > 0 <=> populated
                    /\ \A q \in DOMAIN proc.ranks : Seeded(q)

C23_Witness ==
    /\ proc.kind = "job"
    /\ proc.parallel_context # NoneVal
    /\ DOMAIN proc.ranks = 0..2
    /\ proc.ranks[1].pc = "evaluating"
    /\ proc.ranks[0].pc = "waiting"
    /\ proc.ranks[2].pc = "constructed"

(***************************************************************************)
(* metrics/llm_as_judge.py: evaluate_answer called by several call sites   *)
(* at once on one JudgeLM of the openai or tgi backend whose client is     *)
(* absent.  Nothing in the class orders the callers, so the test of        *)
(* self.client, the construction with its assignment, and the use of the   *)
(* client by __call_api are separate steps of each caller.  jpc and jcall  *)
(* hold, for each caller, its position, what its test of self.client      *)
(* found, the client it built and the client its request was sent with.    *)
(***************************************************************************)
MaxCallers == 2   \* most concurrent callers of evaluate_answer

ConcurrentInit ==
    \E b \in {"openai", "tgi"}, u \in {NoneVal, Str("http://tgi")},
       k \in {NoneVal, Str("key")}, n \in 2..MaxCallers :
        /\ judge = JudgeLM(Str("judge-model"), b, u, k)
        /\ jpc = [c \in 1..n |-> "idle"]
        /\ jcall = [c \in 1..n |-> [observed |-> NoneVal, built |-> NoneVal,
                                    used |-> NoneVal]]
        /\ jlog = [constructions |-> 0]
        /\ FakeIdle
        /\ EvalIdle
        /\ PipeIdle
        /\ RunIdle
        /\ PureIdle

\* if self.client is None:
ObserveClient(c) ==
    /\ jpc[c] = "idle"
    /\ jcall' = [jcall EXCEPT ![c].observed = judge.client]
    /\ jpc' = [jpc EXCEPT ![c] = IF judge.client = NoneVal THEN "absent" ELSE "present"]
    /\ UNCHANGED <<judge, jlog, fakeVars, evalVars, pipeVars, runVars, pureVars>>

ConstructIfStillAbsent(c) ==
    /\ jpc[c] = "absent"
    /\ IF judge.client = NoneVal
          THEN /\ judge' = [judge EXCEPT !.client = OpenAI(judge, jlog.constructions + 1)]
               /\ jcall' = [jcall EXCEPT ![c].built = judge'.client]
               /\ jlog' = [jlog EXCEPT !.constructions = @ + 1]
          ELSE UNCHANGED <<judge, jcall, jlog>>
    /\ jpc' = [jpc EXCEPT ![c] = "present"]
    /\ UNCHANGED <<fakeVars, evalVars, pipeVars, runVars, pureVars>>

\* The body of the test: the import, the construction of the client and its
\* assignment to self.client; the import or the construction may raise.
ConstructClient(c) ==
    /\ jpc[c] = "absent"
    /\ \/ /\ judge' = [judge EXCEPT !.client = OpenAI(judge, jlog.constructions + 1)]
          /\ jcall' = [jcall EXCEPT ![c].built = judge'.client]
          /\ jlog' = [jlog EXCEPT !.constructions = @ + 1]
          /\ jpc' = [jpc EXCEPT ![c] = "present"]
       \/ /\ jpc' = [jpc EXCEPT ![c] = "raised"]
          /\ UNCHANGED <<judge, jcall, jlog>>
    /\ UNCHANGED <<fakeVars, evalVars, pipeVars, runVars, pureVars>>

\* __call_api sends the request with the client self.client holds then.
UseClient(c) ==
    /\ jpc[c] = "present"
    /\ jcall' = [jcall EXCEPT ![c].used = judge.client]
    /\ jpc' = [jpc EXCEPT ![c] = "called"]
    /\ UNCHANGED <<judge, jlog, fakeVars, evalVars, pipeVars, runVars, pureVars>>

SpecJudgeConcurrent ==
    ConcurrentInit /\ [][\E c \in DOMAIN jpc : \/ ObserveClient(c)
                                              \/ ConstructClient(c)
                                              \/ UseClient(c)]_vars

(***************************************************************************)
(* C24: unguarded judge initialization.  A caller that has observed the    *)
(* client absent constructs a client of its own when it goes on, whether   *)
(* or not another caller has assigned one since, so there are as many      *)
(* constructions as callers that went on from that observation (the        *)
(* witness: two, of two concurrent callers); self.client is always the     *)
(* client constructed last, each assignment replacing the one before.      *)
(***************************************************************************)
C24_UnguardedInitialization ==
    LET builders == {c \in DOMAIN jpc : jcall[c].built # NoneVal} IN
    /\ \A c \in DOMAIN jpc :
          jpc[c] \in {"present", "called"} =>
              (jcall[c].built # NoneVal <=> jcall[c].observed = NoneVal)
    /\ jlog.constructions = Cardinality(builders)
    /\ \A c, d \in builders : c # d => jcall[c].built # jcall[d].built
    /\ builders # {} =>
          /\ judge.client \in {jcall[c].built : c \in builders}
          /\ judge.client.serial = jlog.constructions
          /\ \A c \in builders : jcall[c].built.serial <= judge.client.serial
    /\ \A c \in DOMAIN jpc :
          jpc[c] \in {"idle", "absent", "raised"} => jcall[c].built = NoneVal

C24_Witness ==
    /\ jcall[1].observed = NoneVal
    /\ jcall[2].observed = NoneVal
    /\ jlog.constructions = 2
    /\ jcall[1].built.serial = 1
    /\ jcall[2].built.serial = 2
    /\ judge.client = jcall[2].built
    /\ jcall[1].used = jcall[1].built
    /\ jpc[2] = "called"

(***************************************************************************)
(* C25: cleanup error filter.  In the teardown of evaluate() a deletion    *)
(* that fails because the directory does not exist is passed over, and a   *)
(* deletion that fails for another reason leaves evaluate() with that      *)
(* failure: evaluate() gets past the deletion loop only when no directory  *)
(* failed to be deleted for a reason other than its absence, and it has    *)
(* raised the permission failure when a directory is protected; a failure  *)
(* of the model's cleanup hook leaves evaluate() too.  The code breaks     *)
(* this: a permission failure is passed over like an absence.              *)
(***************************************************************************)
C25_CleanupErrorFilter ==
    LET past_loop == \/ ppc \in {"model_cleanup", "evaluated"}
                     \/ (ppc = "raised" /\ perror.msg = "cleanup")
        left_in_loop == ppc = "raised" /\ perror.kind = "PermissionError"
    IN /\ past_loop => (fs.delta # "protected" /\ fs.adapter # "protected")
       /\ left_in_loop => "protected" \in {fs.delta, fs.adapter}
       /\ (ppc = "evaluated") => perror = NoneVal

SpecJudgeFair == SpecJudge /\ WF_vars(ApiAttempt) /\ WF_vars(ApiExhausted)

(***************************************************************************)
(* C27: judge retry stops at first success.  On the openai/tgi path never  *)
(* more than 3 chat-completion calls are made in one evaluate_answer;      *)
(* while the loop runs every call made so far has raised and been slept    *)
(* on; when the k-th call answers, k is between 1 and 3, the k-1 calls     *)
(* before it raised, k calls and k-1 sleeps have happened, the call that   *)
(* answered is the last event of the path, and its content is the          *)
(* response evaluate_answer goes on with and returns; and the path, once   *)
(* entered, always ends, answered or raising.                              *)
(***************************************************************************)
C27_RetryStopsAtSuccess ==
    LET Count(ev) == Cardinality({i \in 1..Len(jcall.events) : jcall.events[i].ev = ev})
        answered == /\ jpc \in {"responded", "returned"}
                    /\ jcall.judge_function = "__call_api"
    IN /\ [](jpc # "none" =>
               /\ jcall.api_calls <= 3
               /\ Count("call") = jcall.api_calls
               /\ jpc = "api" => (jcall.api_calls = jcall.attempt
                                  /\ Count("sleep") = jcall.attempt
                                  /\ jcall.response = NoneVal)
               /\ answered =>
                     /\ jcall.api_calls \in 1..3
                     /\ jcall.attempt = jcall.api_calls - 1
                     /\ Count("sleep") = jcall.api_calls - 1
                     /\ Count("warn") = jcall.api_calls - 1
                     /\ jcall.events[Len(jcall.events)] = Event("call", 0)
                     /\ jcall.response \in Contents
                     /\ jpc = "returned" => jcall.result[3] = jcall.response)
       /\ (jpc = "api" ~> jpc \in {"responded", "raised"})

C27_Witness ==
    /\ jpc = "returned"
    /\ judge.backend = "openai"
    /\ jcall.api_calls = 3
    /\ jcall.attempt = 2
    /\ jcall.response = Str("good")

(***************************************************************************)
(* C28: filter and adapter agree.  For a task of one of the six lists with *)
(* a row filter (xnli, xnli2, xnli_indic, rcb, ocnli, cmnli), a row the    *)
(* filter has accepted, its label a number or the text of one, is adapted  *)
(* without an exception and to gold index 0 or 1.  The code breaks this    *)
(* for xnli_indic and ocnli: the filter converts the label with int() and  *)
(* the adapter looks the unconverted label up.                             *)
(***************************************************************************)
C28_FilterAdapterAgree ==
    (/\ step \in {"adapted", "raised"}
     /\ input.task.family \in {"xnli_tasks", "xnli2_tasks", "xnli_indic_tasks",
                               "rcb_tasks", "ocnli_tasks", "cmnli_tasks"}) =>
        LET keep == HfFilter(input.task.family, input.line) IN
        (~IsException(keep) /\ keep.v) =>
            (step = "adapted" /\ output.gold_idx \in {0, 1})

(***************************************************************************)
(* C29: no teardown on evaluation failure.  When the evaluation engine or  *)
(* the aggregation has raised in evaluate(), evaluate() has ended with     *)
(* that exception, no deletion of a temporary weights directory has been   *)
(* attempted, no directory has been removed and the model's cleanup hook   *)
(* has not been called; a deletion attempt or a call of the hook has       *)
(* happened only after the engine returned and, on a process that          *)
(* aggregates, the aggregation completed.                                  *)
(***************************************************************************)
C29_NoTeardownOnFailure ==
    LET IsTeardown(e) ==
            e \in {"rmtree " \o self.model.model_info.v \o "-delta-applied",
                   "rmtree " \o self.model.model_info.v \o "-adapter-applied",
                   "model.cleanup"}
        teardown == IF "model" \in DOMAIN self THEN SelectSeq(plog, IsTeardown)
                    ELSE <<>>
        failed == perror # NoneVal /\ perror.msg \in {"evaluate", "aggregate"}
    IN /\ failed => /\ ppc = "raised"
                    /\ teardown = <<>>
                    /\ "removed" \notin {fs.delta, fs.adapter}
       /\ teardown # <<>> =>
             /\ Occurrences("evaluate") # <<>>
             /\ ~failed
             /\ EvaluateContext(self, proc) =>
                   Occurrences("details_logger.aggregate") # <<>>
       /\ ppc \in {"constructed", "aggregate", "cleanup"} => teardown = <<>>

C29_Witness ==
    /\ ppc = "raised"
    /\ perror.msg = "aggregate"
    /\ proc.rank = 0
    /\ self.accelerator # NoneVal
    /\ fs.delta = "present"
    /\ fs.adapter = "missing"

====
